---- MODULE Spec2Model ----
(***************************************************************************)
(* Provider registry / model routing and the consensus orchestrator of     *)
(* zen-mcp-server.  Python strings are sequences of one-character strings, *)
(* so that trimming, splitting, lower-casing and formatting are computed.  *)
(***************************************************************************)
EXTENDS Integers, Sequences, FiniteSets, TLC

VARIABLES
    p_src,        \* parser input: how the entry text was put together
    p_entry,      \* parser input: the entry text handed to _parse_model_and_stance
    p_result,     \* what _parse_model_and_stance returned (Pending before the call)
    v_entries,    \* input list of _validate_model_combinations
    v_result,     \* its return value (Pending before the call)
    c_pc,            \* where the execute coroutine stands
    c_models,        \* request.models
    c_continuation,  \* whether request.continuation_id is given
    c_placeholders,  \* number of '{stance_prompt}' in the base system prompt
    c_valid,         \* valid_combinations
    c_skipped,       \* skipped_entries
    c_idx,           \* position of the running for-loop (1-based)
    c_cache,         \* provider_cache
    c_pam,           \* providers_and_models
    c_responses,     \* responses of _get_consensus_responses
    c_output,        \* the JSON object execute returned
    c_raised,        \* the exception that left execute
    c_log,           \* what the collaborators saw: provider lookups, model calls,
                     \* backend generations started, turns stored in memory
    r_providers,     \* ModelProviderRegistry._providers, in insertion order
    r_initialized,   \* ModelProviderRegistry._initialized_providers
    r_env,           \* os.environ: the credential variables the registry reads
    r_policy,        \* the restriction policy singleton
    r_last,          \* the last registry query: operation, arguments, return value
    m_last,          \* the last method call on a provider instance
    t_call,          \* the get_provider call each thread is in: position and locals
    t_registry       \* ModelProviderRegistry._instance and the objects made so far

parseVars == <<p_src, p_entry, p_result>>
valVars == <<v_entries, v_result>>
consVars == <<c_pc, c_models, c_continuation, c_placeholders, c_valid, c_skipped,
              c_idx, c_cache, c_pam, c_responses, c_output, c_raised, c_log>>

regVars == <<r_providers, r_initialized, r_env, r_policy, r_last>>
provVars == <<m_last>>
threadVars == <<t_call, t_registry>>

\* The variables each part of the model leaves alone.
nonParseVars == <<valVars, consVars, regVars, provVars, threadVars>>
nonValVars == <<parseVars, consVars, regVars, provVars, threadVars>>
nonConsVars == <<parseVars, valVars, regVars, provVars, threadVars>>
nonRegVars == <<parseVars, valVars, consVars, provVars, threadVars>>
nonProvVars == <<parseVars, valVars, consVars, r_providers, r_initialized, r_env, r_policy,
                 r_last, threadVars>>
nonThreadVars == <<parseVars, valVars, consVars, provVars, r_providers, r_env, r_policy,
                   r_last>>

-----------------------------------------------------------------------------
(* Bounds of the exploration *)

MaxLen == 3          \* longest unstructured entry text
MaxEntries == 4      \* longest model list given to _validate_model_combinations
MaxModels == 3       \* longest model list of a consensus request

-----------------------------------------------------------------------------
(* Python values *)

\* Python's None where a string is expected: a one-element sequence whose
\* element is not a character, hence different from every string.
None == <<"None">>

\* Return value of a call that has not been made yet (no tuple of strings).
Pending == << <<"Pending">> >>

\* Characters removed by str.strip().
Whitespace == {" ", "\t"}

UpperLetters == <<"A", "B", "C", "D", "E", "F", "G", "H", "I", "J", "K", "L", "M", "N", "O", "P", "Q", "R", "S", "T", "U", "V", "W", "X", "Y", "Z">>
LowerLetters == <<"a", "b", "c", "d", "e", "f", "g", "h", "i", "j", "k", "l", "m", "n", "o", "p", "q", "r", "s", "t", "u", "v", "w", "x", "y", "z">>

\* str.lower() on one character.
LowerOf == [c \in {UpperLetters[i] : i \in 1..26} |->
               LowerLetters[CHOOSE i \in 1..26 : UpperLetters[i] = c]]

LowerChar(c) == IF c \in DOMAIN LowerOf THEN LowerOf[c] ELSE c

\* str.upper() on one character.
UpperOf == [c \in {LowerLetters[i] : i \in 1..26} |->
               UpperLetters[CHOOSE i \in 1..26 : LowerLetters[i] = c]]

UpperChar(c) == IF c \in DOMAIN UpperOf THEN UpperOf[c] ELSE c

\* str.lower()
StrLower(s) == [i \in 1..Len(s) |-> LowerChar(s[i])]

\* str.upper()
StrUpper(s) == [i \in 1..Len(s) |-> UpperChar(s[i])]

\* str.lstrip(), str.rstrip(), str.strip()
RECURSIVE LStrip(_)
LStrip(s) == IF s # <<>> /\ Head(s) \in Whitespace THEN LStrip(Tail(s)) ELSE s

RECURSIVE RStrip(_)
RStrip(s) ==
    IF s # <<>> /\ s[Len(s)] \in Whitespace THEN RStrip(SubSeq(s, 1, Len(s) - 1)) ELSE s

Strip(s) == RStrip(LStrip(s))

\* `sub in s` for strings
Contains(s, sub) ==
    \E i \in 0..(Len(s) - Len(sub)) : SubSeq(s, i + 1, i + Len(sub)) = sub

\* index of the first occurrence of character c in s, 0 when absent
FirstIndex(s, c) ==
    IF \E i \in 1..Len(s) : s[i] = c
    THEN CHOOSE i \in 1..Len(s) : s[i] = c /\ \A j \in 1..(i - 1) : s[j] # c
    ELSE 0

\* ", ".join(words)
RECURSIVE JoinComma(_)
JoinComma(words) ==
    IF words = <<>> THEN <<>>
    ELSE IF Len(words) = 1 THEN words[1]
    ELSE words[1] \o <<",", " ">> \o JoinComma(Tail(words))

-----------------------------------------------------------------------------
(* Stance parsing: tools/consensus.py and the generic parser of server.py *)

s_for == <<"f", "o", "r">>
s_against == <<"a", "g", "a", "i", "n", "s", "t">>
s_neutral == <<"n", "e", "u", "t", "r", "a", "l">>

supportive_stances == {<<"f", "o", "r">>, <<"s", "u", "p", "p", "o", "r", "t">>, <<"f", "a", "v", "o", "r">>}
critical_stances == {<<"a", "g", "a", "i", "n", "s", "t">>, <<"o", "p", "p", "o", "s", "e">>, <<"c", "r", "i", "t", "i", "c", "a", "l">>}

\* sorted(supportive_stances | critical_stances)
sorted_stances == <<<<"a", "g", "a", "i", "n", "s", "t">>, <<"c", "r", "i", "t", "i", "c", "a", "l">>, <<"f", "a", "v", "o", "r">>, <<"f", "o", "r">>, <<"o", "p", "p", "o", "s", "e">>, <<"s", "u", "p", "p", "o", "r", "t">>>>

\* server.parse_model_option: split at the first ':', both sides trimmed;
\* no ':' gives the trimmed text and no option.
parse_model_option(model_string) ==
    LET k == FirstIndex(model_string, ":") IN
    IF k = 0 THEN <<Strip(model_string), None>>
    ELSE <<Strip(SubSeq(model_string, 1, k - 1)),
           Strip(SubSeq(model_string, k + 1, Len(model_string)))>>

empty_model_reason == <<"m", "o", "d", "e", "l", " ", "n", "a", "m", "e", " ", "c", "a", "n", "n", "o", "t", " ", "b", "e", " ", "e", "m", "p", "t", "y">>

invalid_stance_reason(stance) ==
    <<"i", "n", "v", "a", "l", "i", "d", " ", "s", "t", "a", "n", "c", "e", " ", "'">> \o stance \o <<"'", " ", "(", "m", "u", "s", "t", " ", "b", "e", " ", "o", "n", "e", " ", "o", "f", ":", " ">>
        \o JoinComma(sorted_stances) \o <<",", " ", "o", "r", " ", "o", "m", "i", "t", "t", "e", "d", " ", "f", "o", "r", " ", "n", "e", "u", "t", "r", "a", "l", ")">>

\* Mutation: the stance is compared as typed, without lower-casing.
parse_model_and_stance_nolower(model_entry) ==
    LET po == parse_model_option(model_entry)
        model_name == po[1]
        stance == po[2]
    IN  IF model_name = <<>> THEN <<None, empty_model_reason>>
        ELSE IF stance = None \/ stance = <<>> THEN <<model_name, s_neutral>>
        ELSE IF stance \in supportive_stances THEN <<model_name, s_for>>
        ELSE IF stance \in critical_stances THEN <<model_name, s_against>>
        ELSE IF stance = s_neutral THEN <<model_name, stance>>
        ELSE <<None, invalid_stance_reason(stance)>>

\* Mutation: an unknown stance word falls back to neutral instead of being rejected.
parse_model_and_stance_lenient(model_entry) ==
    LET po == parse_model_option(model_entry)
        model_name == po[1]
        stance == po[2]
    IN  IF model_name = <<>> THEN <<None, empty_model_reason>>
        ELSE IF stance = None \/ stance = <<>> THEN <<model_name, s_neutral>>
        ELSE LET st == StrLower(stance) IN
             IF st \in supportive_stances THEN <<model_name, s_for>>
             ELSE IF st \in critical_stances THEN <<model_name, s_against>>
             ELSE <<model_name, s_neutral>>

\* Mutation: the empty-model check is missing.
parse_model_and_stance_noempty(model_entry) ==
    LET po == parse_model_option(model_entry)
        model_name == po[1]
        stance == po[2]
    IN  IF stance = None \/ stance = <<>> THEN <<model_name, s_neutral>>
        ELSE LET st == StrLower(stance) IN
             IF st \in supportive_stances THEN <<model_name, s_for>>
             ELSE IF st \in critical_stances THEN <<model_name, s_against>>
             ELSE IF st = s_neutral THEN <<model_name, st>>
             ELSE <<None, invalid_stance_reason(st)>>

\* ConsensusTool._parse_model_and_stance
parse_model_and_stance(model_entry) ==
    LET po == parse_model_option(model_entry)
        model_name == po[1]
        stance == po[2]
    IN  IF model_name = <<>> THEN <<None, empty_model_reason>>
        ELSE IF stance = None \/ stance = <<>> THEN <<model_name, s_neutral>>
        ELSE LET st == StrLower(stance) IN
             IF st \in supportive_stances THEN <<model_name, s_for>>
             ELSE IF st \in critical_stances THEN <<model_name, s_against>>
             ELSE IF st = s_neutral THEN <<model_name, st>>
             ELSE <<None, invalid_stance_reason(st)>>

-----------------------------------------------------------------------------
(* Inputs of the parser *)

\* All strings over `alphabet` of length at most n.
StringsUpTo(alphabet, n) == UNION {[1..k -> alphabet] : k \in 0..n}

RawAlphabet == {"a", "B", ":", " ", "\t"}

\* Capitalised form of a word: str.capitalize()
Capitalize(w) == IF w = <<>> THEN w ELSE <<UpperChar(w[1])>> \o Tail(w)

AcceptedWords == supportive_stances \cup critical_stances

\* A word with every second letter in upper case.
AltCase(w) == [i \in 1..Len(w) |-> IF i % 2 = 0 THEN UpperChar(w[i]) ELSE w[i]]

\* Each word as typed in lower, upper, capitalised and mixed letters.
Cased(words) == UNION {{w, StrUpper(w), Capitalize(w), AltCase(w)} : w \in words}

OtherTokens ==
    {<<"m", "a", "y", "b", "e">>, <<"M", "A", "Y", "B", "E">>, <<"s", "u", "p", "p", "o", "r", "t", "i", "v", "e">>, <<"p", "r", "o">>, <<"c", "o", "n", "t", "r", "a">>, <<"c", "o", "n">>, <<"k", "i", "n", "d", "a">>,
     <<"f", "o", "r", ":", "x">>, <<"f", " ", "o", "r">>, <<"f", "o">>, <<"x">>}

StanceTokens == Cased(AcceptedWords) \cup Cased({s_neutral}) \cup OtherTokens \cup {<<>>}

ModelTexts == {<<>>, <<"o", "3">>, <<"P", "r", "o">>, <<"g", "r", "o", "k", "-", "3">>}

Pads == {<<>>, <<" ">>, <<"\t", " ">>}

\* form "raw": the text itself;  form "bare": pad model pad;
\* form "colon": pad model pad ':' pad token pad
Render(src) ==
    IF src.form = "raw" THEN src.text
    ELSE IF src.form = "bare" THEN src.pads[1] \o src.model \o src.pads[2]
    ELSE src.pads[1] \o src.model \o src.pads[2] \o <<":">>
             \o src.pads[3] \o src.token \o src.pads[4]

NoPads == <<(<<>>), (<<>>), (<<>>), (<<>>)>>

PadChoices ==
    {<<a, b, c, d>> : a \in Pads, b \in {<<>>, <<" ">>}, c \in {<<>>, <<" ">>}, d \in Pads}

ParseSources ==
    {[form |-> "raw", text |-> t, model |-> <<>>, token |-> <<>>, pads |-> NoPads] :
        t \in StringsUpTo(RawAlphabet, MaxLen)}
    \cup
    {[form |-> "bare", text |-> <<>>, model |-> m, token |-> <<>>, pads |-> p] :
        m \in ModelTexts, p \in {q \in PadChoices : q[3] = <<>> /\ q[4] = <<>>}}
    \cup
    {[form |-> "colon", text |-> <<>>, model |-> m, token |-> t, pads |-> p] :
        m \in ModelTexts, t \in StanceTokens, p \in PadChoices}

\* One call of _parse_model_and_stance on the entry.
ParseEntry ==
    /\ p_result = Pending
    /\ p_result' = parse_model_and_stance(p_entry)
    /\ UNCHANGED <<p_src, p_entry>>
    /\ UNCHANGED nonParseVars

-----------------------------------------------------------------------------
(* Combination validation: tools/consensus.py *)

\* config.DEFAULT_CONSENSUS_MAX_INSTANCES_PER_COMBINATION
DEFAULT_CONSENSUS_MAX_INSTANCES_PER_COMBINATION == 2

Digits == <<"0", "1", "2", "3", "4", "5", "6", "7", "8", "9">>

\* str(n) for a natural number
RECURSIVE IntToStr(_)
IntToStr(n) ==
    IF n < 10 THEN <<Digits[n + 1]>>
    ELSE IntToStr(n \div 10) \o <<Digits[(n % 10) + 1]>>

\* f"{entry} ({reason})"
parse_skip_text(entry, reason) == entry \o <<" ", "(">> \o reason \o <<")">>

\* f"{model_name}:{stance} (max {N} instances)"
cap_skip_text(model_name, stance) ==
    model_name \o <<":">> \o stance \o <<" ", "(", "m", "a", "x", " ">>
        \o IntToStr(DEFAULT_CONSENSUS_MAX_INSTANCES_PER_COMBINATION) \o <<" ", "i", "n", "s", "t", "a", "n", "c", "e", "s", ")">>

\* combination_counts.get(combination_key, 0)
counts_get(combination_counts, combination_key) ==
    IF combination_key \in DOMAIN combination_counts
    THEN combination_counts[combination_key] ELSE 0

\* combination_counts[combination_key] = n
counts_set(combination_counts, combination_key, n) ==
    [k \in DOMAIN combination_counts \cup {combination_key} |->
        IF k = combination_key THEN n ELSE combination_counts[k]]

\* Mutation: the cap is compared with > instead of >=, one instance too many.
RECURSIVE validate_loop_offbyone(_, _, _, _)
validate_loop_offbyone(model_entries, valid_combinations, skipped_entries, combination_counts) ==
    IF model_entries = <<>> THEN <<valid_combinations, skipped_entries>>
    ELSE
        LET entry == Head(model_entries)
            result == parse_model_and_stance(entry)
            rest == Tail(model_entries)
        IN  IF result[1] = None
            THEN validate_loop_offbyone(rest, valid_combinations,
                     Append(skipped_entries, parse_skip_text(entry, result[2])),
                     combination_counts)
            ELSE
                LET current_count == counts_get(combination_counts, result) IN
                IF current_count > DEFAULT_CONSENSUS_MAX_INSTANCES_PER_COMBINATION
                THEN validate_loop_offbyone(rest, valid_combinations,
                         Append(skipped_entries, cap_skip_text(result[1], result[2])),
                         combination_counts)
                ELSE validate_loop_offbyone(rest, Append(valid_combinations, result),
                         skipped_entries,
                         counts_set(combination_counts, result, current_count + 1))

\* Mutation: an entry over the cap is dropped without a skip record.
RECURSIVE validate_loop_dropcapped(_, _, _, _)
validate_loop_dropcapped(model_entries, valid_combinations, skipped_entries, combination_counts) ==
    IF model_entries = <<>> THEN <<valid_combinations, skipped_entries>>
    ELSE
        LET entry == Head(model_entries)
            result == parse_model_and_stance(entry)
            rest == Tail(model_entries)
        IN  IF result[1] = None
            THEN validate_loop_dropcapped(rest, valid_combinations,
                     Append(skipped_entries, parse_skip_text(entry, result[2])),
                     combination_counts)
            ELSE
                LET current_count == counts_get(combination_counts, result) IN
                IF current_count >= DEFAULT_CONSENSUS_MAX_INSTANCES_PER_COMBINATION
                THEN validate_loop_dropcapped(rest, valid_combinations, skipped_entries,
                         combination_counts)
                ELSE validate_loop_dropcapped(rest, Append(valid_combinations, result),
                         skipped_entries,
                         counts_set(combination_counts, result, current_count + 1))

\* The for-loop of _validate_model_combinations over the remaining entries.
RECURSIVE validate_loop(_, _, _, _)
validate_loop(model_entries, valid_combinations, skipped_entries, combination_counts) ==
    IF model_entries = <<>> THEN <<valid_combinations, skipped_entries>>
    ELSE
        LET entry == Head(model_entries)
            result == parse_model_and_stance(entry)
            rest == Tail(model_entries)
        IN  IF result[1] = None
            THEN validate_loop(rest, valid_combinations,
                     Append(skipped_entries, parse_skip_text(entry, result[2])),
                     combination_counts)
            ELSE
                LET current_count == counts_get(combination_counts, result) IN
                IF current_count >= DEFAULT_CONSENSUS_MAX_INSTANCES_PER_COMBINATION
                THEN validate_loop(rest, valid_combinations,
                         Append(skipped_entries, cap_skip_text(result[1], result[2])),
                         combination_counts)
                ELSE validate_loop(rest, Append(valid_combinations, result),
                         skipped_entries,
                         counts_set(combination_counts, result, current_count + 1))

\* ConsensusTool._validate_model_combinations
validate_model_combinations(model_entries) ==
    validate_loop(model_entries, <<>>, <<>>, <<>>)

\* Entry texts the validation is run on.
ValidateEntryPool ==
    {<<"o", "3", ":", "f", "o", "r">>, <<"o", "3", ":", "s", "u", "p", "p", "o", "r", "t">>, <<" ", "o", "3", " ", ":", " ", "F", "A", "V", "O", "R">>, <<"o", "3">>, <<"o", "3", ":", "a", "g", "a", "i", "n", "s", "t">>,
     <<"p", "r", "o", ":", "f", "o", "r">>, <<"o", "3", ":", "m", "a", "y", "b", "e">>, <<":", "f", "o", "r">>}

\* One call of _validate_model_combinations on the list.
ValidateEntries ==
    /\ v_result = Pending
    /\ v_result' = validate_model_combinations(v_entries)
    /\ UNCHANGED v_entries
    /\ UNCHANGED nonValVars

-----------------------------------------------------------------------------
(* Consensus execution: ConsensusTool.execute and its helpers *)

\* No exception.
Nothing == "nothing"

\* execute has returned no object (yet).
NoOutput == [returned |-> FALSE]

\* Mutation: the stance is written for every response, neutral included.
model_display_always(model_name, stance) == model_name \o <<":">> \o stance

\* f"{model}:{stance}" for the for/against stances, the bare model for neutral
model_display(model_name, stance) ==
    IF stance # s_neutral THEN model_name \o <<":">> \o stance ELSE model_name

\* The provider object get_model_provider returns for a model name.
provider_of(model_name) == [serves |-> model_name]

\* f"{model_display} (provider not available: {str(e)})"
provider_skip_text(model_name, stance, message) ==
    model_display(model_name, stance) \o <<" ", "(", "p", "r", "o", "v", "i", "d", "e", "r", " ", "n", "o", "t", " ", "a", "v", "a", "i", "l", "a", "b", "l", "e", ":", " ">>
        \o message \o <<")">>

\* The ValueError text of _get_stance_enhanced_prompt for a wrong placeholder count.
placeholder_error(count) ==
    <<"S", "y", "s", "t", "e", "m", " ", "p", "r", "o", "m", "p", "t", " ", "m", "u", "s", "t", " ", "c", "o", "n", "t", "a", "i", "n", " ", "e", "x", "a", "c", "t", "l", "y", " ", "o", "n", "e", " ", "'", "{", "s", "t", "a", "n", "c", "e", "_", "p", "r", "o", "m", "p", "t", "}", "'", " ", "p", "l", "a", "c", "e", "h", "o", "l", "d", "e", "r", ",", " ", "f", "o", "u", "n", "d", " ">>
        \o IntToStr(count)

\* ConsensusTool._get_single_response: `outcome` is what provider.generate_content
\* does, "ok" or the text of the exception it raises; `placeholders` is the number
\* of '{stance_prompt}' in the base system prompt, checked while the arguments of
\* generate_content are evaluated, inside the try block.
get_single_response(model_name, stance, outcome, placeholders) ==
    IF placeholders # 1
    THEN [model |-> model_name, stance |-> stance, status |-> "error",
          error |-> placeholder_error(placeholders)]
    ELSE IF outcome = <<"o", "k">>
    THEN [model |-> model_name, stance |-> stance, status |-> "success",
          verdict |-> <<"v", "e", "r", "d", "i", "c", "t">>]
    ELSE [model |-> model_name, stance |-> stance, status |-> "error",
          error |-> outcome]

\* Whether _get_single_response reaches the backend call.
reaches_backend(placeholders) == placeholders = 1

\* Mutation: a failed call is not recorded.
collect_response_dropfailed(responses, response) ==
    IF response.status = "error" THEN responses ELSE Append(responses, response)

\* Mutation: the newest response is put first.
collect_response_prepend(responses, response) == <<response>> \o responses

\* responses.append(response) in _get_consensus_responses
collect_response(responses, response) == Append(responses, response)

\* [r for r in responses if r["status"] == "success"]
successful_responses(responses) ==
    SelectSeq(responses, LAMBDA r : r.status = "success")

\* [r for r in responses if r["status"] == "error"]
failed_responses(responses) ==
    SelectSeq(responses, LAMBDA r : r.status = "error")

\* Mutation: any failed call counts as total failure.
no_successful_response_strict(responses) == failed_responses(responses) # <<>>

\* `if not successful_responses` in execute
no_successful_response(responses) == successful_responses(responses) = <<>>

\* The display names of a list of responses.
display_names(responses) ==
    [i \in 1..Len(responses) |-> model_display(responses[i].model, responses[i].stance)]

\* ConsensusTool._get_synthesis_guidance, by its three cases
get_synthesis_guidance(successful, failed) ==
    IF successful = <<>> THEN "retry"
    ELSE IF Len(successful) = 1 THEN "single_perspective"
    ELSE IF failed # <<>> THEN "synthesize_partial"
    ELSE "synthesize"

\* r.get("error", "Unknown error") and the other fields of a clean response
clean_response(r) ==
    IF r.status = "success"
    THEN [model |-> r.model, stance |-> r.stance, status |-> r.status,
          verdict |-> r.verdict]
    ELSE [model |-> r.model, stance |-> r.stance, status |-> r.status,
          error |-> r.error]

\* ConsensusTool._format_consensus_output
format_consensus_output(responses, skipped_entries) ==
    LET successful == successful_responses(responses)
        failed == failed_responses(responses)
    IN  [status |-> IF successful # <<>> THEN <<"c", "o", "n", "s", "e", "n", "s", "u", "s", "_", "s", "u", "c", "c", "e", "s", "s">>
                    ELSE <<"c", "o", "n", "s", "e", "n", "s", "u", "s", "_", "f", "a", "i", "l", "e", "d">>,
         models_used |-> display_names(successful),
         models_skipped |-> skipped_entries,
         models_errored |-> display_names(failed),
         responses |-> [i \in 1..Len(responses) |-> clean_response(responses[i])],
         next_steps |-> get_synthesis_guidance(successful, failed)]

\* Mutation: the rejected entries are left out of the error object.
no_valid_output_noskips(skipped_entries) ==
    [status |-> <<"c", "o", "n", "s", "e", "n", "s", "u", "s", "_", "f", "a", "i", "l", "e", "d">>,
     error |-> <<"N", "o", " ", "v", "a", "l", "i", "d", " ", "m", "o", "d", "e", "l", " ", "c", "o", "m", "b", "i", "n", "a", "t", "i", "o", "n", "s", " ", "a", "f", "t", "e", "r", " ", "v", "a", "l", "i", "d", "a", "t", "i", "o", "n">>,
     models_skipped |-> <<>>,
     next_steps |-> "provide_valid_models"]

\* The three error objects execute returns.
no_valid_output(skipped_entries) ==
    [status |-> <<"c", "o", "n", "s", "e", "n", "s", "u", "s", "_", "f", "a", "i", "l", "e", "d">>,
     error |-> <<"N", "o", " ", "v", "a", "l", "i", "d", " ", "m", "o", "d", "e", "l", " ", "c", "o", "m", "b", "i", "n", "a", "t", "i", "o", "n", "s", " ", "a", "f", "t", "e", "r", " ", "v", "a", "l", "i", "d", "a", "t", "i", "o", "n">>,
     models_skipped |-> skipped_entries,
     next_steps |-> "provide_valid_models"]

no_provider_output(skipped_entries) ==
    [status |-> <<"c", "o", "n", "s", "e", "n", "s", "u", "s", "_", "f", "a", "i", "l", "e", "d">>,
     error |-> <<"N", "o", " ", "m", "o", "d", "e", "l", " ", "p", "r", "o", "v", "i", "d", "e", "r", "s", " ", "a", "v", "a", "i", "l", "a", "b", "l", "e">>,
     models_skipped |-> skipped_entries,
     next_steps |-> "check_api_keys"]

all_failed_output(responses, skipped_entries) ==
    [status |-> <<"c", "o", "n", "s", "e", "n", "s", "u", "s", "_", "f", "a", "i", "l", "e", "d">>,
     error |-> <<"A", "l", "l", " ", "m", "o", "d", "e", "l", " ", "c", "a", "l", "l", "s", " ", "f", "a", "i", "l", "e", "d", " ", "-", " ", "n", "o", " ", "s", "u", "c", "c", "e", "s", "s", "f", "u", "l", " ", "r", "e", "s", "p", "o", "n", "s", "e", "s", " ", "r", "e", "c", "e", "i", "v", "e", "d">>,
     models_skipped |-> skipped_entries,
     models_errored |-> display_names(failed_responses(responses)),
     next_steps |-> "retry"]

\* Mutation: the failed responses are stored with the successful ones.
stored_turn_everything(output, responses, skipped_entries) ==
    [content |-> output,
     tool_name |-> "consensus",
     model_provider |-> "consensus",
     model_name |-> "consensus",
     models_used |-> [i \in 1..Len(successful_responses(responses)) |->
                         successful_responses(responses)[i].model],
     models_skipped |-> skipped_entries,
     models_errored |-> [i \in 1..Len(failed_responses(responses)) |->
                            failed_responses(responses)[i].model],
     individual_responses |-> responses]

\* The turn store_conversation_turn hands to add_turn.
stored_turn(output, responses, skipped_entries) ==
    [content |-> output,
     tool_name |-> "consensus",
     model_provider |-> "consensus",
     model_name |-> "consensus",
     models_used |-> [i \in 1..Len(successful_responses(responses)) |->
                         successful_responses(responses)[i].model],
     models_skipped |-> skipped_entries,
     models_errored |-> [i \in 1..Len(failed_responses(responses)) |->
                            failed_responses(responses)[i].model],
     individual_responses |-> successful_responses(responses)]

\* Entry texts a consensus request is made of.
ConsensusEntryPool == {<<"o", "3", ":", "f", "o", "r">>, <<"o", "3", ":", "a", "g", "a", "i", "n", "s", "t">>, <<"o", "3">>, <<"p", "r", "o", ":", "s", "u", "p", "p", "o", "r", "t">>, <<"o", "3", ":", "m", "a", "y", "b", "e">>}

\* What provider.generate_content does: returns, or raises with one of these texts.
BackendOutcomes == {<<"o", "k">>, <<"t", "i", "m", "e", "o", "u", "t">>, <<"A", "P", "I", " ", "e", "r", "r", "o", "r">>}

\* Numbers of '{stance_prompt}' placeholders a deployed system prompt may hold.
PlaceholderCounts == {0, 1, 2}

EmptyLog == [lookups |-> <<>>, calls |-> <<>>, generations |-> 0, memory |-> <<>>]

\* execute, lines 598-641: request validation, combination validation and the
\* early return when no combination is valid.
ExecuteValidate ==
    /\ c_pc = "start"
    /\ IF c_models = <<>>
       THEN /\ c_raised' = "ValidationError"
            /\ c_pc' = "raised"
            /\ UNCHANGED <<c_valid, c_skipped, c_output>>
       ELSE LET result == validate_model_combinations(c_models) IN
            /\ c_valid' = result[1]
            /\ c_skipped' = result[2]
            /\ IF result[1] = <<>>
               THEN /\ c_output' = no_valid_output(result[2])
                    /\ c_pc' = "done"
               ELSE /\ c_output' = c_output
                    /\ c_pc' = "prepare"
            /\ UNCHANGED c_raised
    /\ UNCHANGED <<c_models, c_continuation, c_placeholders, c_idx, c_cache, c_pam,
                   c_responses, c_log>>
    /\ UNCHANGED nonConsVars

\* execute, line 653: prepare_prompt raises ValueError for an oversized prompt.
PreparePrompt(oversized) ==
    /\ c_pc = "prepare"
    /\ IF oversized
       THEN /\ c_raised' = "ValueError"
            /\ c_pc' = "raised"
            /\ UNCHANGED c_idx
       ELSE /\ c_pc' = "lookup"
            /\ c_idx' = 1
            /\ UNCHANGED c_raised
    /\ UNCHANGED <<c_models, c_continuation, c_placeholders, c_valid, c_skipped,
                   c_cache, c_pam, c_responses, c_output, c_log>>
    /\ UNCHANGED nonConsVars

\* execute, lines 659-682: one iteration of the provider loop; after the last
\* one, the early return when no provider was found.  `available` is whether
\* get_model_provider returns a provider or raises.
LookupProvider(available) ==
    /\ c_pc = "lookup"
    /\ c_idx <= Len(c_valid)
    /\ LET model_name == c_valid[c_idx][1]
           stance == c_valid[c_idx][2]
           cached == model_name \in DOMAIN c_cache
           found == cached \/ available
           pam == IF found
                  THEN Append(c_pam, <<provider_of(model_name), model_name, stance>>)
                  ELSE c_pam
           skipped == IF found THEN c_skipped
                      ELSE Append(c_skipped,
                               provider_skip_text(model_name, stance, <<"u", "n", "a", "v", "a", "i", "l", "a", "b", "l", "e">>))
       IN  /\ c_cache' = IF ~cached /\ available
                         THEN [m \in DOMAIN c_cache \cup {model_name} |->
                                  provider_of(m)]
                         ELSE c_cache
           /\ c_log' = IF cached THEN c_log
                       ELSE [c_log EXCEPT !.lookups = Append(@, model_name)]
           /\ c_pam' = pam
           /\ c_skipped' = skipped
           /\ IF c_idx < Len(c_valid)
              THEN /\ c_idx' = c_idx + 1
                   /\ UNCHANGED <<c_pc, c_output>>
              ELSE IF pam = <<>>
              THEN /\ c_output' = no_provider_output(skipped)
                   /\ c_pc' = "done"
                   /\ UNCHANGED c_idx
              ELSE /\ c_pc' = "dispatch"
                   /\ c_idx' = 1
                   /\ UNCHANGED c_output
    /\ UNCHANGED <<c_models, c_continuation, c_placeholders, c_valid, c_responses,
                   c_raised>>
    /\ UNCHANGED nonConsVars

\* _get_consensus_responses, lines 437-444: one model call and the append of
\* its response; the coroutine then suspends in asyncio.sleep(0.2).
CallModel(outcome) ==
    /\ c_pc = "dispatch"
    /\ c_idx <= Len(c_pam)
    /\ LET model_name == c_pam[c_idx][2]
           stance == c_pam[c_idx][3]
           response == get_single_response(model_name, stance, outcome, c_placeholders)
           raised == IF reaches_backend(c_placeholders) THEN outcome
                     ELSE placeholder_error(c_placeholders)
       IN  /\ c_responses' = collect_response(c_responses, response)
           /\ c_log' = [c_log EXCEPT
                  !.calls = Append(@, [model |-> model_name, stance |-> stance,
                                       raised |-> raised]),
                  !.generations = IF reaches_backend(c_placeholders) THEN @ + 1 ELSE @]
    /\ c_pc' = "sleep"
    /\ UNCHANGED <<c_models, c_continuation, c_placeholders, c_valid, c_skipped, c_idx,
                   c_cache, c_pam, c_output, c_raised>>
    /\ UNCHANGED nonConsVars

\* _get_single_response, lines 406-413: provider.generate_content is called
\* synchronously on the thread of the event loop and no timeout is set around
\* it, so a backend call that never returns leaves the coroutine inside the
\* call.
CallNeverReturns ==
    /\ c_pc = "dispatch"
    /\ c_idx <= Len(c_pam)
    /\ reaches_backend(c_placeholders)
    /\ c_log' = [c_log EXCEPT
           !.calls = Append(@, [model |-> c_pam[c_idx][2], stance |-> c_pam[c_idx][3],
                                raised |-> "never returns"]),
           !.generations = @ + 1]
    /\ c_pc' = "in_call"
    /\ UNCHANGED <<c_models, c_continuation, c_placeholders, c_valid, c_skipped, c_idx,
                   c_cache, c_pam, c_responses, c_output, c_raised>>
    /\ UNCHANGED nonConsVars

\* The sleep of the dispatch loop returns: next iteration, or after the last one
\* execute, lines 686-703: the total-failure return.
ResumeDispatch ==
    /\ c_pc = "sleep"
    /\ IF c_idx < Len(c_pam)
       THEN /\ c_idx' = c_idx + 1
            /\ c_pc' = "dispatch"
            /\ UNCHANGED c_output
       ELSE IF no_successful_response(c_responses)
       THEN /\ c_output' = all_failed_output(c_responses, c_skipped)
            /\ c_pc' = "done"
            /\ UNCHANGED c_idx
       ELSE /\ c_pc' = "format_sleep"
            /\ UNCHANGED <<c_idx, c_output>>
    /\ UNCHANGED <<c_models, c_continuation, c_placeholders, c_valid, c_skipped,
                   c_cache, c_pam, c_responses, c_raised, c_log>>
    /\ UNCHANGED nonConsVars

\* execute, lines 706-726: after asyncio.sleep(0.1), the aggregate is built,
\* stored when a continuation id was given, and returned.
FormatAndStore ==
    /\ c_pc = "format_sleep"
    /\ LET output == format_consensus_output(c_responses, c_skipped) IN
       /\ c_output' = output
       /\ c_log' = IF c_continuation
                   THEN [c_log EXCEPT !.memory =
                            Append(@, stored_turn(output, c_responses, c_skipped))]
                   ELSE c_log
    /\ c_pc' = "done"
    /\ UNCHANGED <<c_models, c_continuation, c_placeholders, c_valid, c_skipped, c_idx,
                   c_cache, c_pam, c_responses, c_raised>>
    /\ UNCHANGED nonConsVars

\* Mutation: the entries collected so far are returned when the task is
\* cancelled.
Cancel_partial ==
    /\ c_pc \in {"sleep", "format_sleep"}
    /\ c_raised' = "CancelledError"
    /\ c_output' = format_consensus_output(c_responses, c_skipped)
    /\ c_pc' = "cancelled"
    /\ UNCHANGED <<c_models, c_continuation, c_placeholders, c_valid, c_skipped, c_idx,
                   c_cache, c_pam, c_responses, c_log>>
    /\ UNCHANGED nonConsVars

\* The host cancels the task: CancelledError is raised at the await the
\* coroutine is suspended in and leaves execute (it is no Exception subclass).
Cancel ==
    /\ c_pc \in {"sleep", "format_sleep"}
    /\ c_raised' = "CancelledError"
    /\ c_pc' = "cancelled"
    /\ UNCHANGED <<c_models, c_continuation, c_placeholders, c_valid, c_skipped, c_idx,
                   c_cache, c_pam, c_responses, c_output, c_log>>
    /\ UNCHANGED nonConsVars

-----------------------------------------------------------------------------
(* Provider kinds, provider classes and their model tables *)

\* providers/base.py ProviderType
ProviderType == {"GOOGLE", "OPENAI", "XAI", "DIAL", "CUSTOM", "OPENROUTER", "VERTEX_AI"}

\* A table entry: the key of SUPPORTED_MODELS, and the model_name and aliases
\* fields of its ModelCapabilities.
Entry(key, aliases) == [key |-> key, model_name |-> key, aliases |-> aliases]

\* OpenAIModelProvider.SUPPORTED_MODELS, in the order of the dict
OPENAI_SUPPORTED_MODELS ==
    << Entry(<<"g", "p", "t", "-", "5">>, {<<"g", "p", "t", "5">>, <<"g", "p", "t", "-", "5">>}),
       Entry(<<"g", "p", "t", "-", "5", "-", "m", "i", "n", "i">>, {<<"g", "p", "t", "5", "-", "m", "i", "n", "i">>, <<"g", "p", "t", "5", "m", "i", "n", "i">>, <<"m", "i", "n", "i">>}),
       Entry(<<"o", "3">>, {}),
       Entry(<<"o", "3", "-", "m", "i", "n", "i">>, {<<"o", "3", "m", "i", "n", "i">>, <<"o", "3", "-", "m", "i", "n", "i">>}),
       Entry(<<"o", "3", "-", "p", "r", "o">>, {<<"o", "3", "-", "p", "r", "o">>}),
       Entry(<<"o", "4", "-", "m", "i", "n", "i">>, {<<"o", "4", "m", "i", "n", "i">>, <<"o", "4", "-", "m", "i", "n", "i">>}),
       Entry(<<"g", "p", "t", "-", "4", ".", "1">>, {<<"g", "p", "t", "4", ".", "1">>, <<"g", "p", "t", "-", "4", ".", "1">>}) >>

\* XAIModelProvider.SUPPORTED_MODELS
XAI_SUPPORTED_MODELS ==
    << Entry(<<"g", "r", "o", "k", "-", "4">>, {<<"g", "r", "o", "k">>, <<"g", "r", "o", "k", "4">>, <<"g", "r", "o", "k", "-", "4">>}),
       Entry(<<"g", "r", "o", "k", "-", "3">>, {<<"g", "r", "o", "k", "3">>}),
       Entry(<<"g", "r", "o", "k", "-", "3", "-", "f", "a", "s", "t">>, {<<"g", "r", "o", "k", "3", "f", "a", "s", "t">>, <<"g", "r", "o", "k", "f", "a", "s", "t">>, <<"g", "r", "o", "k", "3", "-", "f", "a", "s", "t">>}) >>

\* GeminiModelProvider.SUPPORTED_MODELS: the two models and shorthands its
\* tests use.
GEMINI_SUPPORTED_MODELS ==
    << Entry(<<"g", "e", "m", "i", "n", "i", "-", "2", ".", "5", "-", "f", "l", "a", "s", "h">>, {<<"f", "l", "a", "s", "h">>}),
       Entry(<<"g", "e", "m", "i", "n", "i", "-", "2", ".", "5", "-", "p", "r", "o">>, {<<"p", "r", "o">>}) >>

\* The models VertexAIProvider adds to the inherited Gemini table.
VERTEX_ONLY_MODELS ==
    << Entry(<<"g", "e", "m", "i", "n", "i", "-", "2", ".", "5", "-", "f", "l", "a", "s", "h", "-", "l", "i", "t", "e", "-", "p", "r", "e", "v", "i", "e", "w", "-", "0", "6", "-", "1", "7">>, {}),
       Entry(<<"g", "e", "m", "i", "n", "i", "-", "2", ".", "5", "-", "p", "r", "o", "-", "p", "r", "e", "v", "i", "e", "w", "-", "0", "6", "-", "0", "5">>, {}),
       Entry(<<"g", "e", "m", "i", "n", "i", "-", "2", ".", "0", "-", "f", "l", "a", "s", "h">>, {}) >>

\* VertexAIProvider.get_all_model_aliases: vertex_aliases and the direct alias
vertex_aliases(key) ==
    IF key = <<"g", "e", "m", "i", "n", "i", "-", "2", ".", "5", "-", "p", "r", "o">> THEN {<<"v", "e", "r", "t", "e", "x", "-", "p", "r", "o">>, <<"v", "e", "r", "t", "e", "x", "-", "2", ".", "5", "-", "p", "r", "o">>}
    ELSE IF key = <<"g", "e", "m", "i", "n", "i", "-", "2", ".", "5", "-", "f", "l", "a", "s", "h">> THEN {<<"v", "e", "r", "t", "e", "x", "-", "f", "l", "a", "s", "h">>, <<"v", "e", "r", "t", "e", "x", "-", "2", ".", "5", "-", "f", "l", "a", "s", "h">>}
    ELSE IF key = <<"g", "e", "m", "i", "n", "i", "-", "2", ".", "5", "-", "f", "l", "a", "s", "h", "-", "l", "i", "t", "e", "-", "p", "r", "e", "v", "i", "e", "w", "-", "0", "6", "-", "1", "7">>
         THEN {<<"v", "e", "r", "t", "e", "x", "-", "l", "i", "t", "e">>, <<"v", "e", "r", "t", "e", "x", "-", "2", ".", "5", "-", "f", "l", "a", "s", "h", "-", "l", "i", "t", "e">>, <<"g", "e", "m", "i", "n", "i", "-", "2", ".", "5", "-", "f", "l", "a", "s", "h", "-", "l", "i", "t", "e">>}
    ELSE IF key = <<"g", "e", "m", "i", "n", "i", "-", "2", ".", "0", "-", "f", "l", "a", "s", "h">> THEN {<<"v", "e", "r", "t", "e", "x", "-", "2", ".", "0", "-", "f", "l", "a", "s", "h">>}
    ELSE {}

\* VertexAIProvider.SUPPORTED_MODELS with the aliases of get_all_model_aliases
VERTEX_SUPPORTED_MODELS ==
    LET t == GEMINI_SUPPORTED_MODELS \o VERTEX_ONLY_MODELS
    IN  [i \in 1..Len(t) |->
            [t[i] EXCEPT !.aliases = t[i].aliases \cup vertex_aliases(t[i].key)]]

\* DIAL, the self-hosted endpoint and OpenRouter: a self-hosted model that
\* OpenRouter serves too, and models served by a native API as well.
DIAL_SUPPORTED_MODELS ==
    << Entry(<<"o", "3">>, {}), Entry(<<"g", "e", "m", "i", "n", "i", "-", "2", ".", "5", "-", "p", "r", "o">>, {<<"d", "i", "a", "l", "-", "p", "r", "o">>}) >>

CUSTOM_SUPPORTED_MODELS ==
    << Entry(<<"l", "l", "a", "m", "a", "3", ".", "2">>, {<<"l", "l", "a", "m", "a">>, <<"l", "o", "c", "a", "l", "-", "l", "l", "a", "m", "a">>}) >>

OPENROUTER_SUPPORTED_MODELS ==
    << Entry(<<"m", "i", "s", "t", "r", "a", "l", "-", "l", "a", "r", "g", "e">>, {<<"m", "i", "s", "t", "r", "a", "l">>}),
       Entry(<<"l", "l", "a", "m", "a", "3", ".", "2">>, {<<"l", "l", "a", "m", "a">>}),
       Entry(<<"o", "3">>, {}) >>

ProviderClasses ==
    {"GeminiModelProvider", "OpenAIModelProvider", "XAIModelProvider", "DIALModelProvider",
     "CustomProvider", "OpenRouterProvider", "VertexAIProvider"}

\* cls.SUPPORTED_MODELS
SUPPORTED_MODELS(cls) ==
    CASE cls = "GeminiModelProvider" -> GEMINI_SUPPORTED_MODELS
      [] cls = "OpenAIModelProvider" -> OPENAI_SUPPORTED_MODELS
      [] cls = "XAIModelProvider" -> XAI_SUPPORTED_MODELS
      [] cls = "DIALModelProvider" -> DIAL_SUPPORTED_MODELS
      [] cls = "CustomProvider" -> CUSTOM_SUPPORTED_MODELS
      [] cls = "OpenRouterProvider" -> OPENROUTER_SUPPORTED_MODELS
      [] cls = "VertexAIProvider" -> VERTEX_SUPPORTED_MODELS

\* provider.get_provider_type()
get_provider_type(cls) ==
    CASE cls = "GeminiModelProvider" -> "GOOGLE"
      [] cls = "OpenAIModelProvider" -> "OPENAI"
      [] cls = "XAIModelProvider" -> "XAI"
      [] cls = "DIALModelProvider" -> "DIAL"
      [] cls = "CustomProvider" -> "CUSTOM"
      [] cls = "OpenRouterProvider" -> "OPENROUTER"
      [] cls = "VertexAIProvider" -> "VERTEX_AI"

\* `name in table` for a SUPPORTED_MODELS dict
Keys(table) == {table[i].key : i \in 1..Len(table)}

\* table[key]
Lookup(table, key) == table[CHOOSE i \in 1..Len(table) : table[i].key = key]

-----------------------------------------------------------------------------
(* Restriction policy: utils/model_restrictions.py *)

\* A policy maps some provider kinds to the set of model names they may serve.
\* A kind without an entry is unrestricted; an empty set allows nothing.
is_allowed(policy, provider_type, model_name) ==
    provider_type \notin DOMAIN policy \/ model_name \in policy[provider_type]

\* Alias resolution of a provider: the input lower-cased and trimmed is looked
\* up among the keys, then among the aliases; without a match the input itself
\* is returned.
resolve_model_name(cls, model_name) ==
    LET table == SUPPORTED_MODELS(cls)
        wanted == StrLower(Strip(model_name))
        hits == {i \in 1..Len(table) : wanted \in table[i].aliases}
    IN  IF wanted \in Keys(table) THEN wanted
        ELSE IF hits # {} THEN table[CHOOSE i \in hits : \A j \in hits : i <= j].key
        ELSE model_name

-----------------------------------------------------------------------------
(* Provider methods *)

\* The descriptor handed out for a table entry.
Capabilities(provider_type, entry) ==
    [provider |-> provider_type, model_name |-> entry.model_name]

NoCapabilities == [provider |-> "None", model_name |-> None]

Returned(capabilities) == [raised |-> <<>>, capabilities |-> capabilities]
Raised(message) == [raised |-> message, capabilities |-> NoCapabilities]

\* OpenAIModelProvider.validate_model_name
openai_validate_model_name(policy, model_name) ==
    LET resolved_name == resolve_model_name("OpenAIModelProvider", model_name)
    IN  IF resolved_name \notin Keys(OPENAI_SUPPORTED_MODELS) THEN FALSE
        ELSE IF ~is_allowed(policy, "OPENAI", resolved_name) THEN FALSE
        ELSE TRUE

openai_restricted(model_name) ==
    Raised(<<"O", "p", "e", "n", "A", "I", " ", "m", "o", "d", "e", "l", " ", "'">> \o model_name \o <<"'", " ", "i", "s", " ", "n", "o", "t", " ", "a", "l", "l", "o", "w", "e", "d", " ", "b", "y", " ", "r", "e", "s", "t", "r", "i", "c", "t", "i", "o", "n", " ", "p", "o", "l", "i", "c", "y", ".">>)

\* Mutation: a name that is a key of the table is answered without asking
\* the restriction policy.
openai_get_capabilities_keyunchecked(policy, model_name) ==
    LET table == OPENAI_SUPPORTED_MODELS
        resolved_name == resolve_model_name("OpenAIModelProvider", model_name)
    IN  IF model_name \in Keys(table)
        THEN Returned(Capabilities("OPENAI", Lookup(table, model_name)))
        ELSE IF resolved_name \in Keys(table)
        THEN IF ~is_allowed(policy, "OPENAI", resolved_name)
             THEN openai_restricted(model_name)
             ELSE Returned(Capabilities("OPENAI", Lookup(table, resolved_name)))
        ELSE Raised(<<"U", "n", "s", "u", "p", "p", "o", "r", "t", "e", "d", " ", "O", "p", "e", "n", "A", "I", " ", "m", "o", "d", "e", "l", ":", " ">> \o model_name)

\* OpenAIModelProvider.get_capabilities
openai_get_capabilities(policy, model_name) ==
    LET table == OPENAI_SUPPORTED_MODELS
        resolved_name == resolve_model_name("OpenAIModelProvider", model_name)
        api_hits == {i \in 1..Len(table) : resolved_name = table[i].model_name}
    IN  IF model_name \in Keys(table)
        THEN IF ~is_allowed(policy, "OPENAI", model_name)
             THEN openai_restricted(model_name)
             ELSE Returned(Capabilities("OPENAI", Lookup(table, model_name)))
        ELSE IF resolved_name \in Keys(table)
        THEN IF ~is_allowed(policy, "OPENAI", resolved_name)
             THEN openai_restricted(model_name)
             ELSE Returned(Capabilities("OPENAI", Lookup(table, resolved_name)))
        ELSE IF api_hits # {}
        THEN LET entry == table[CHOOSE i \in api_hits : \A j \in api_hits : i <= j]
             IN  IF ~is_allowed(policy, "OPENAI", entry.key)
                 THEN openai_restricted(model_name)
                 ELSE Returned(Capabilities("OPENAI", entry))
        ELSE Raised(<<"U", "n", "s", "u", "p", "p", "o", "r", "t", "e", "d", " ", "O", "p", "e", "n", "A", "I", " ", "m", "o", "d", "e", "l", ":", " ">> \o model_name)

\* XAIModelProvider.validate_model_name
xai_validate_model_name(policy, model_name) ==
    LET resolved_name == resolve_model_name("XAIModelProvider", model_name)
    IN  IF resolved_name \notin Keys(XAI_SUPPORTED_MODELS) THEN FALSE
        ELSE IF ~is_allowed(policy, "XAI", resolved_name) THEN FALSE
        ELSE TRUE

\* XAIModelProvider.get_capabilities
xai_get_capabilities(policy, model_name) ==
    LET resolved_name == resolve_model_name("XAIModelProvider", model_name)
    IN  IF resolved_name \notin Keys(XAI_SUPPORTED_MODELS)
        THEN Raised(<<"U", "n", "s", "u", "p", "p", "o", "r", "t", "e", "d", " ", "X", ".", "A", "I", " ", "m", "o", "d", "e", "l", ":", " ">> \o model_name)
        ELSE IF ~is_allowed(policy, "XAI", resolved_name)
        THEN Raised(<<"X", ".", "A", "I", " ", "m", "o", "d", "e", "l", " ", "'">> \o model_name
                        \o <<"'", " ", "i", "s", " ", "n", "o", "t", " ", "a", "l", "l", "o", "w", "e", "d", " ", "b", "y", " ", "r", "e", "s", "t", "r", "i", "c", "t", "i", "o", "n", " ", "p", "o", "l", "i", "c", "y", ".">>)
        ELSE Returned(Capabilities("XAI", Lookup(XAI_SUPPORTED_MODELS, resolved_name)))

\* validate_model_name of the providers that keep the common contract: the
\* resolved name is a key of the table and the policy allows it for this
\* provider.
base_validate_model_name(cls, policy, model_name) ==
    LET resolved_name == resolve_model_name(cls, model_name)
    IN  /\ resolved_name \in Keys(SUPPORTED_MODELS(cls))
        /\ is_allowed(policy, get_provider_type(cls), resolved_name)

\* get_capabilities of the providers that keep the common contract.
base_get_capabilities(cls, policy, model_name) ==
    LET resolved_name == resolve_model_name(cls, model_name)
    IN  IF resolved_name \notin Keys(SUPPORTED_MODELS(cls))
        THEN Raised(<<"U", "n", "s", "u", "p", "p", "o", "r", "t", "e", "d", " ", "m", "o", "d", "e", "l", ":", " ">> \o model_name)
        ELSE IF ~is_allowed(policy, get_provider_type(cls), resolved_name)
        THEN Raised(<<"M", "o", "d", "e", "l", " ", "'">> \o model_name \o <<"'", " ", "i", "s", " ", "n", "o", "t", " ", "a", "l", "l", "o", "w", "e", "d", " ", "b", "y", " ", "r", "e", "s", "t", "r", "i", "c", "t", "i", "o", "n", " ", "p", "o", "l", "i", "c", "y", ".">>)
        ELSE Returned(Capabilities(get_provider_type(cls),
                                   Lookup(SUPPORTED_MODELS(cls), resolved_name)))

\* VertexAIProvider.get_capabilities: a Vertex-only model is answered from the
\* table at once; an inherited one by the parent, relabelled.
vertex_get_capabilities(policy, model_name) ==
    LET resolved_name == resolve_model_name("VertexAIProvider", model_name)
    IN  IF /\ resolved_name \in Keys(VERTEX_SUPPORTED_MODELS)
           /\ resolved_name \notin Keys(GEMINI_SUPPORTED_MODELS)
        THEN Returned(Capabilities("VERTEX_AI",
                                   Lookup(VERTEX_SUPPORTED_MODELS, resolved_name)))
        ELSE LET capabilities ==
                     base_get_capabilities("VertexAIProvider", policy, resolved_name)
             IN  IF capabilities.raised # <<>> THEN capabilities
                 ELSE Returned([capabilities.capabilities EXCEPT !.provider = "VERTEX_AI"])

\* provider.validate_model_name(model_name)
validate_model_name(cls, policy, model_name) ==
    CASE cls = "OpenAIModelProvider" -> openai_validate_model_name(policy, model_name)
      [] cls = "XAIModelProvider" -> xai_validate_model_name(policy, model_name)
      [] OTHER -> base_validate_model_name(cls, policy, model_name)

\* provider.get_capabilities(model_name)
get_capabilities(cls, policy, model_name) ==
    CASE cls = "OpenAIModelProvider" -> openai_get_capabilities(policy, model_name)
      [] cls = "XAIModelProvider" -> xai_get_capabilities(policy, model_name)
      [] cls = "VertexAIProvider" -> vertex_get_capabilities(policy, model_name)
      [] OTHER -> base_get_capabilities(cls, policy, model_name)

\* [x for x in xs if keep] with keep given as a set
Filter(xs, kept) == SelectSeq(xs, LAMBDA x : x \in kept)

\* VertexAIProvider.list_models, and list_models of the common contract: the
\* keys of the table, those the policy allows when respect_restrictions.
list_models(cls, policy, respect_restrictions) ==
    LET table == SUPPORTED_MODELS(cls)
        names == [i \in 1..Len(table) |-> table[i].key]
    IN  IF respect_restrictions
        THEN Filter(names, {n \in Keys(table) : is_allowed(policy, get_provider_type(cls), n)})
        ELSE names
-----------------------------------------------------------------------------
(* Provider preferences *)

ToolModelCategory == {"EXTENDED_REASONING", "FAST_RESPONSE", "BALANCED"}

\* `x in xs` for a list
InList(x, xs) == \E i \in 1..Len(xs) : xs[i] = x

\* Mutation: the last preference among allowed_models is taken.
find_first_last(preferences, allowed_models) ==
    LET hits == {i \in 1..Len(preferences) : InList(preferences[i], allowed_models)}
    IN  IF hits = {} THEN None
        ELSE preferences[CHOOSE i \in hits : \A j \in hits : i >= j]

\* find_first(preferences): the first preference among allowed_models, or None
find_first(preferences, allowed_models) ==
    LET hits == {i \in 1..Len(preferences) : InList(preferences[i], allowed_models)}
    IN  IF hits = {} THEN None
        ELSE preferences[CHOOSE i \in hits : \A j \in hits : i <= j]

\* OpenAIModelProvider.get_preferred_model
openai_get_preferred_model(category, allowed_models) ==
    IF allowed_models = <<>> THEN None
    ELSE LET preferred ==
                 IF category = "EXTENDED_REASONING"
                 THEN find_first(<<<<"o", "3">>, <<"o", "3", "-", "p", "r", "o">>, <<"g", "p", "t", "-", "5">>>>, allowed_models)
                 ELSE find_first(<<<<"g", "p", "t", "-", "5">>, <<"g", "p", "t", "-", "5", "-", "m", "i", "n", "i">>, <<"o", "4", "-", "m", "i", "n", "i">>, <<"o", "3", "-", "m", "i", "n", "i">>>>,
                                 allowed_models)
         IN  IF preferred # None THEN preferred ELSE allowed_models[1]

\* XAIModelProvider.get_preferred_model
xai_get_preferred_model(category, allowed_models) ==
    IF allowed_models = <<>> THEN None
    ELSE LET preferred ==
                 IF category = "EXTENDED_REASONING"
                 THEN find_first(<<<<"g", "r", "o", "k", "-", "4">>, <<"g", "r", "o", "k", "-", "3">>>>, allowed_models)
                 ELSE IF category = "FAST_RESPONSE"
                 THEN find_first(<<<<"g", "r", "o", "k", "-", "3", "-", "f", "a", "s", "t">>, <<"g", "r", "o", "k", "-", "4">>>>, allowed_models)
                 ELSE find_first(<<<<"g", "r", "o", "k", "-", "4">>, <<"g", "r", "o", "k", "-", "3">>, <<"g", "r", "o", "k", "-", "3", "-", "f", "a", "s", "t">>>>, allowed_models)
         IN  IF preferred # None THEN preferred ELSE allowed_models[1]

\* GeminiModelProvider.get_preferred_model: pro for extended reasoning, flash
\* otherwise, None when neither is allowed.
gemini_get_preferred_model(category, allowed_models) ==
    IF category = "EXTENDED_REASONING"
    THEN find_first(<<<<"g", "e", "m", "i", "n", "i", "-", "2", ".", "5", "-", "p", "r", "o">>, <<"g", "e", "m", "i", "n", "i", "-", "2", ".", "5", "-", "f", "l", "a", "s", "h">>>>, allowed_models)
    ELSE find_first(<<<<"g", "e", "m", "i", "n", "i", "-", "2", ".", "5", "-", "f", "l", "a", "s", "h">>, <<"g", "e", "m", "i", "n", "i", "-", "2", ".", "5", "-", "p", "r", "o">>>>, allowed_models)

\* provider.get_preferred_model(category, allowed_models); the providers
\* without a preference of their own answer None.
get_preferred_model(cls, category, allowed_models) ==
    CASE cls = "OpenAIModelProvider" -> openai_get_preferred_model(category, allowed_models)
      [] cls = "XAIModelProvider" -> xai_get_preferred_model(category, allowed_models)
      [] cls \in {"GeminiModelProvider", "VertexAIProvider"} ->
            gemini_get_preferred_model(category, allowed_models)
      [] OTHER -> None

\* Code-point order of the characters model names are written with.
AsciiChars == <<"-", ".", "/", "0", "1", "2", "3", "4", "5", "6", "7", "8", "9", "a", "b", "c", "d", "e", "f", "g", "h", "i", "j", "k", "l", "m", "n", "o", "p", "q", "r", "s", "t", "u", "v", "w", "x", "y", "z">>

OrdOf == [c \in {AsciiChars[i] : i \in 1..Len(AsciiChars)} |->
             CHOOSE i \in 1..Len(AsciiChars) : AsciiChars[i] = c]

ord(c) == OrdOf[c]

\* a <= b for Python strings
RECURSIVE StrLeq(_, _)
StrLeq(a, b) ==
    IF a = <<>> THEN TRUE
    ELSE IF b = <<>> THEN FALSE
    ELSE IF Head(a) = Head(b) THEN StrLeq(Tail(a), Tail(b))
    ELSE ord(Head(a)) < ord(Head(b))

\* Mutation: the list is not sorted before its first element is taken.
sorted_first_unsorted(names) == names[1]

\* sorted(names)[0]
sorted_first(names) ==
    names[CHOOSE i \in 1..Len(names) : \A j \in 1..Len(names) : StrLeq(names[i], names[j])]

-----------------------------------------------------------------------------
(* ModelProviderRegistry: providers/registry.py *)

\* Mutation: the catch-all provider is asked before the self-hosted one.
PROVIDER_PRIORITY_ORDER_routerfirst ==
    <<"GOOGLE", "OPENAI", "XAI", "DIAL", "OPENROUTER", "CUSTOM">>

PROVIDER_PRIORITY_ORDER == <<"GOOGLE", "OPENAI", "XAI", "DIAL", "CUSTOM", "OPENROUTER">>

\* Mutation: the Vertex AI kind is given the Gemini credential variable.
key_mapping_vertex ==
    [GOOGLE |-> "GEMINI_API_KEY", OPENAI |-> "OPENAI_API_KEY", XAI |-> "XAI_API_KEY",
     OPENROUTER |-> "OPENROUTER_API_KEY", CUSTOM |-> "CUSTOM_API_KEY",
     DIAL |-> "DIAL_API_KEY", VERTEX_AI |-> "GEMINI_API_KEY"]

\* _get_api_key_for_provider.key_mapping
key_mapping ==
    [GOOGLE |-> "GEMINI_API_KEY", OPENAI |-> "OPENAI_API_KEY", XAI |-> "XAI_API_KEY",
     OPENROUTER |-> "OPENROUTER_API_KEY", CUSTOM |-> "CUSTOM_API_KEY",
     DIAL |-> "DIAL_API_KEY"]

\* The environment variables the registry reads.  An unset variable and an
\* empty one are both "".
EnvVars == {key_mapping[k] : k \in DOMAIN key_mapping} \cup {"CUSTOM_API_URL"}

\* What can be registered: a provider class, or for the custom kind a factory
\* function that builds the provider itself.
custom_provider_factory == "custom_provider_factory"

\* The provider the factory builds: a CustomProvider for the endpoint of the
\* environment, with the key it was given or none.
factory_call(env, api_key) ==
    [cls |-> "CustomProvider", api_key |-> api_key, base_url |-> env["CUSTOM_API_URL"]]

\* No provider: the None of get_provider and get_provider_for_model.
NoProvider == [cls |-> "None", api_key |-> "", base_url |-> "", id |-> 0]

\* `provider_type in instance._providers`
Registered(providers) == {providers[i].kind : i \in 1..Len(providers)}

\* instance._providers[provider_type]
ProviderClassOf(providers, provider_type) ==
    providers[CHOOSE i \in 1..Len(providers) : providers[i].kind = provider_type].cls

\* Mutation: a kind whose variable is unset is given a default key.
get_api_key_for_provider_default(env, provider_type) ==
    IF provider_type \notin DOMAIN key_mapping THEN ""
    ELSE IF env[key_mapping[provider_type]] = "" THEN "test-key"
    ELSE env[key_mapping[provider_type]]

\* ModelProviderRegistry._get_api_key_for_provider
get_api_key_for_provider(env, provider_type) ==
    IF provider_type \notin DOMAIN key_mapping THEN ""
    ELSE env[key_mapping[provider_type]]

\* cache[provider_type] = provider
CacheStore(initialized, provider_type, provider) ==
    [k \in DOMAIN initialized \cup {provider_type} |->
        IF k = provider_type THEN provider ELSE initialized[k]]

Got(provider, initialized) == [provider |-> provider, initialized |-> initialized]

\* The identity of an object built now.  While it is built the cache still
\* holds the previous instance of the kind, if any, so the two are different
\* objects; instances of different kinds differ by their class.
NewId(initialized, provider_type) ==
    IF provider_type \in DOMAIN initialized THEN 3 - initialized[provider_type].id ELSE 1

\* provider_class(api_key=..., base_url=...): a new object.
Construct(id, provider_class, api_key, base_url) ==
    [cls |-> provider_class, api_key |-> api_key, base_url |-> base_url, id |-> id]

\* Mutation: the cached instance is ignored, as if force_new were always given.
get_provider_uncached(providers, initialized, env, provider_type, force_new) ==
    IF provider_type \notin Registered(providers)
    THEN Got(NoProvider, initialized)
    ELSE LET api_key == get_api_key_for_provider(env, provider_type)
             provider_class == ProviderClassOf(providers, provider_type)
         IN  IF provider_type = "CUSTOM"
             THEN IF provider_class = custom_provider_factory
                  THEN LET built == factory_call(env, api_key)
                           provider == Construct(NewId(initialized, provider_type), built.cls, built.api_key,
                                                 built.base_url)
                       IN  Got(provider, CacheStore(initialized, provider_type, provider))
                  ELSE LET custom_url == env["CUSTOM_API_URL"]
                       IN  IF custom_url = ""
                           THEN Got(NoProvider, initialized)
                           ELSE LET provider == Construct(NewId(initialized, provider_type), provider_class,
                                                          api_key, custom_url)
                                IN  Got(provider,
                                        CacheStore(initialized, provider_type, provider))
             ELSE IF api_key = ""
                  THEN Got(NoProvider, initialized)
                  ELSE LET provider == Construct(NewId(initialized, provider_type), provider_class, api_key, "")
                       IN  Got(provider, CacheStore(initialized, provider_type, provider))

\* ModelProviderRegistry.get_provider: the provider returned and the cache
\* afterwards.
get_provider(providers, initialized, env, provider_type, force_new) ==
    IF ~force_new /\ provider_type \in DOMAIN initialized
    THEN Got(initialized[provider_type], initialized)
    ELSE IF provider_type \notin Registered(providers)
    THEN Got(NoProvider, initialized)
    ELSE LET api_key == get_api_key_for_provider(env, provider_type)
             provider_class == ProviderClassOf(providers, provider_type)
         IN  IF provider_type = "CUSTOM"
             THEN IF provider_class = custom_provider_factory
                  THEN LET built == factory_call(env, api_key)
                           provider == Construct(NewId(initialized, provider_type), built.cls, built.api_key,
                                                 built.base_url)
                       IN  Got(provider, CacheStore(initialized, provider_type, provider))
                  ELSE LET custom_url == env["CUSTOM_API_URL"]
                       IN  IF custom_url = ""
                           THEN Got(NoProvider, initialized)
                           ELSE LET provider == Construct(NewId(initialized, provider_type), provider_class,
                                                          api_key, custom_url)
                                IN  Got(provider,
                                        CacheStore(initialized, provider_type, provider))
             ELSE IF api_key = ""
                  THEN Got(NoProvider, initialized)
                  ELSE LET provider == Construct(NewId(initialized, provider_type), provider_class, api_key, "")
                       IN  Got(provider, CacheStore(initialized, provider_type, provider))

\* The logging.warning call of get_provider: the custom kind is registered as
\* a class, a key is set and the URL is missing.
get_provider_warns(providers, initialized, env, provider_type, force_new) ==
    /\ force_new \/ provider_type \notin DOMAIN initialized
    /\ provider_type \in Registered(providers)
    /\ provider_type = "CUSTOM"
    /\ ProviderClassOf(providers, provider_type) # custom_provider_factory
    /\ env["CUSTOM_API_URL"] = ""
    /\ get_api_key_for_provider(env, provider_type) # ""

\* The loop of get_provider_for_model from position i of the priority order.
RECURSIVE provider_for_model_from(_, _, _, _, _, _)
provider_for_model_from(i, providers, initialized, env, policy, model_name) ==
    IF i > Len(PROVIDER_PRIORITY_ORDER) THEN Got(NoProvider, initialized)
    ELSE LET provider_type == PROVIDER_PRIORITY_ORDER[i]
         IN  IF provider_type \in Registered(providers)
             THEN LET got == get_provider(providers, initialized, env, provider_type, FALSE)
                  IN  IF /\ got.provider # NoProvider
                         /\ validate_model_name(got.provider.cls, policy, model_name)
                      THEN got
                      ELSE provider_for_model_from(i + 1, providers, got.initialized, env,
                                                   policy, model_name)
             ELSE provider_for_model_from(i + 1, providers, initialized, env, policy,
                                          model_name)

\* ModelProviderRegistry.get_provider_for_model
get_provider_for_model(providers, initialized, env, policy, model_name) ==
    provider_for_model_from(1, providers, initialized, env, policy, model_name)

\* models[model_name] = provider_type for every listed name
DictUpdate(models, names, provider_type) ==
    [n \in DOMAIN models \cup {names[i] : i \in 1..Len(names)} |->
        IF InList(n, names) THEN provider_type ELSE models[n]]

EmptyDict == [n \in {} |-> ""]

\* The loop of get_available_models from position i of _providers.
RECURSIVE available_models_from(_, _, _, _, _, _, _)
available_models_from(i, models, providers, initialized, env, policy, respect_restrictions) ==
    IF i > Len(providers) THEN [models |-> models, initialized |-> initialized]
    ELSE LET provider_type == providers[i].kind
             got == get_provider(providers, initialized, env, provider_type, FALSE)
         IN  IF got.provider = NoProvider
             THEN available_models_from(i + 1, models, providers, got.initialized, env,
                                        policy, respect_restrictions)
             ELSE LET available == list_models(got.provider.cls, policy,
                                               respect_restrictions)
                  IN  available_models_from(i + 1,
                                            DictUpdate(models, available, provider_type),
                                            providers, got.initialized, env, policy,
                                            respect_restrictions)

\* ModelProviderRegistry.get_available_models
get_available_models(providers, initialized, env, policy, respect_restrictions) ==
    available_models_from(1, EmptyDict, providers, initialized, env, policy,
                          respect_restrictions)

\* ModelProviderRegistry._get_allowed_models_for_provider
get_allowed_models_for_provider(cls, provider_type, policy) ==
    LET supported_models == list_models(cls, policy, FALSE)
    IN  Filter(supported_models,
               {n \in Keys(SUPPORTED_MODELS(cls)) : is_allowed(policy, provider_type, n)})

\* Mutation: nothing is returned when no provider has any model.
ultimate_fallback_none == None

\* The model returned when no provider has any model.
ultimate_fallback == <<"g", "e", "m", "i", "n", "i", "-", "2", ".", "5", "-", "f", "l", "a", "s", "h">>

Chosen(model, initialized) == [model |-> model, initialized |-> initialized]

\* The loop of get_preferred_fallback_model from position i of the priority
\* order.
RECURSIVE preferred_fallback_from(_, _, _, _, _, _, _)
preferred_fallback_from(i, first_available_model, providers, initialized, env, policy, effective_category) ==
    IF i > Len(PROVIDER_PRIORITY_ORDER)
    THEN IF first_available_model # None
         THEN Chosen(first_available_model, initialized)
         ELSE Chosen(ultimate_fallback, initialized)
    ELSE LET provider_type == PROVIDER_PRIORITY_ORDER[i]
             got == get_provider(providers, initialized, env, provider_type, FALSE)
         IN  IF got.provider = NoProvider
             THEN preferred_fallback_from(i + 1, first_available_model, providers,
                                          got.initialized, env, policy, effective_category)
             ELSE LET allowed_models ==
                          get_allowed_models_for_provider(got.provider.cls, provider_type,
                                                          policy)
                      first == IF first_available_model = None /\ allowed_models # <<>>
                               THEN sorted_first(allowed_models)
                               ELSE first_available_model
                      preferred_model ==
                          get_preferred_model(got.provider.cls, effective_category,
                                              allowed_models)
                  IN  IF allowed_models = <<>>
                      THEN preferred_fallback_from(i + 1, first_available_model, providers,
                                                   got.initialized, env, policy,
                                                   effective_category)
                      ELSE IF preferred_model # None /\ preferred_model # <<>>
                      THEN Chosen(preferred_model, got.initialized)
                      ELSE preferred_fallback_from(i + 1, first, providers, got.initialized,
                                                   env, policy, effective_category)

\* ModelProviderRegistry.get_preferred_fallback_model; tool_category "None"
\* is the omitted argument.
get_preferred_fallback_model(providers, initialized, env, policy, tool_category) ==
    LET effective_category == IF tool_category = "None" THEN "BALANCED" ELSE tool_category
    IN  preferred_fallback_from(1, None, providers, initialized, env, policy,
                                effective_category)
-----------------------------------------------------------------------------
(* The registry and the providers as called by their clients *)

MaxRegistered == 2   \* most provider kinds registered at a time

EmptyCache == [k \in {} |-> NoProvider]

NoRestrictions == [k \in {} |-> {}]

\* Restriction policies the process may have been started with.
PolicyPool ==
    { NoRestrictions,
      ("OPENAI" :> {<<"g", "p", "t", "-", "4", ".", "1">>}) @@ ("OPENROUTER" :> {<<"m", "i", "s", "t", "r", "a", "l", "-", "l", "a", "r", "g", "e">>})
          @@ ("VERTEX_AI" :> {<<"g", "e", "m", "i", "n", "i", "-", "2", ".", "5", "-", "p", "r", "o">>}) @@ ("XAI" :> {<<"g", "r", "o", "k", "-", "3">>})
          @@ ("CUSTOM" :> {}) @@ ("DIAL" :> {<<"o", "3">>}),
      ("GOOGLE" :> {}) @@ ("OPENAI" :> {}) @@ ("DIAL" :> {<<"g", "e", "m", "i", "n", "i", "-", "2", ".", "5", "-", "p", "r", "o">>}) }

\* Environments: every variable set, all but one, or none.
EnvValue(v) == IF v = "CUSTOM_API_URL" THEN "http://localhost:11434" ELSE "test-key"

EnvPool ==
    { [v \in EnvVars |-> IF v \in set THEN EnvValue(v) ELSE ""] :
        set \in {s \in SUBSET EnvVars :
                    s = {} \/ Cardinality(EnvVars \ s) <= 1} }

\* What the server registers for each kind.
RegisterChoices ==
    { <<"GOOGLE", "GeminiModelProvider">>, <<"OPENAI", "OpenAIModelProvider">>,
      <<"XAI", "XAIModelProvider">>, <<"DIAL", "DIALModelProvider">>,
      <<"CUSTOM", "CustomProvider">>, <<"CUSTOM", custom_provider_factory>>,
      <<"OPENROUTER", "OpenRouterProvider">>, <<"VERTEX_AI", "VertexAIProvider">> }

\* Kinds, classes and environment variables of the calls that exercise the
\* instance cache: a kind with a second class, the custom kind as class and
\* as factory, and a kind without a credential variable.
CacheRegisterChoices ==
    { <<"OPENAI", "OpenAIModelProvider">>, <<"OPENAI", "XAIModelProvider">>,
      <<"CUSTOM", "CustomProvider">>, <<"CUSTOM", custom_provider_factory>>,
      <<"VERTEX_AI", "VertexAIProvider">> }

CacheKinds == {"OPENAI", "CUSTOM", "VERTEX_AI"}

CacheEnvVars == {"OPENAI_API_KEY", "CUSTOM_API_KEY", "CUSTOM_API_URL"}

\* Values a variable is given: removed, the usual value, a rotated key.
CacheEnvValues(variable) ==
    IF variable = "OPENAI_API_KEY" THEN {"", "test-key", "rotated-key"}
    ELSE {"", EnvValue(variable)}

\* Model names asked of the registry.
RegistryQueryNames == {<<"o", "3">>, <<" ", "O", "3", " ">>, <<"l", "l", "a", "m", "a">>, <<"g", "e", "m", "i", "n", "i", "-", "2", ".", "5", "-", "p", "r", "o">>, <<"n", "o", "p", "e">>}

\* Model names asked of a provider.
ProviderQueryNames ==
    RegistryQueryNames \cup
    {<<"o", "3", "-", "m", "i", "n", "i">>, <<"o", "3", "m", "i", "n", "i">>, <<"g", "p", "t", "-", "4", ".", "1">>, <<"m", "i", "n", "i">>, <<"g", "r", "o", "k">>, <<"g", "r", "o", "k", "-", "3">>, <<"g", "r", "o", "k", "3">>, <<"f", "l", "a", "s", "h">>,
     <<"p", "r", "o">>, <<"g", "e", "m", "i", "n", "i", "-", "2", ".", "5", "-", "f", "l", "a", "s", "h">>, <<"g", "e", "m", "i", "n", "i", "-", "2", ".", "0", "-", "f", "l", "a", "s", "h">>, <<"v", "e", "r", "t", "e", "x", "-", "2", ".", "0", "-", "f", "l", "a", "s", "h">>, <<"v", "e", "r", "t", "e", "x", "-", "p", "r", "o">>,
     <<"g", "e", "m", "i", "n", "i", "-", "2", ".", "5", "-", "f", "l", "a", "s", "h", "-", "l", "i", "t", "e">>, <<"l", "l", "a", "m", "a", "3", ".", "2">>, <<"m", "i", "s", "t", "r", "a", "l">>, <<"m", "i", "s", "t", "r", "a", "l", "-", "l", "a", "r", "g", "e">>, <<"M", "i", "s", "t", "r", "a", "l">>,
     <<"d", "i", "a", "l", "-", "p", "r", "o">>}

NoCall == [op |-> "none", arg |-> "", ret |-> ""]

NoMethodCall == [op |-> "none", cls |-> "None", arg |-> "", done |-> FALSE, ret |-> ""]

\* A method call about to be made on a provider instance.
MethodCall(op, cls, arg) == [op |-> op, cls |-> cls, arg |-> arg, done |-> FALSE, ret |-> ""]

ProviderCalls ==
    {MethodCall("validate_model_name", cls, n) : cls \in ProviderClasses,
                                                 n \in ProviderQueryNames}
    \cup {MethodCall("get_capabilities", cls, n) : cls \in ProviderClasses,
                                                  n \in ProviderQueryNames}
    \cup {MethodCall("list_models", cls, r) : cls \in ProviderClasses, r \in BOOLEAN}
    \cup {MethodCall("get_preferred_model", cls, c) : cls \in ProviderClasses,
                                                     c \in ToolModelCategory}

\* ModelProviderRegistry.register_provider
RegisterProvider(provider_type, provider_class) ==
    /\ r_last = NoCall
    /\ provider_type \in Registered(r_providers) \/ Len(r_providers) < MaxRegistered
    /\ r_providers' =
          IF provider_type \in Registered(r_providers)
          THEN [i \in 1..Len(r_providers) |->
                   IF r_providers[i].kind = provider_type
                   THEN [kind |-> provider_type, cls |-> provider_class]
                   ELSE r_providers[i]]
          ELSE Append(r_providers, [kind |-> provider_type, cls |-> provider_class])
    /\ r_last' = NoCall
    /\ UNCHANGED <<r_initialized, r_env, r_policy>>
    /\ UNCHANGED nonRegVars

\* Mutation: unregister_provider leaves the cached instance behind.
UnregisterProvider_registration(provider_type) ==
    /\ r_last = NoCall
    /\ r_providers' = SelectSeq(r_providers, LAMBDA p : p.kind # provider_type)
    /\ r_last' = NoCall
    /\ UNCHANGED <<r_initialized, r_env, r_policy>>
    /\ UNCHANGED nonRegVars

\* ModelProviderRegistry.unregister_provider
UnregisterProvider(provider_type) ==
    /\ r_last = NoCall
    /\ r_providers' = SelectSeq(r_providers, LAMBDA p : p.kind # provider_type)
    /\ r_initialized' = [k \in DOMAIN r_initialized \ {provider_type} |-> r_initialized[k]]
    /\ r_last' = NoCall
    /\ UNCHANGED <<r_env, r_policy>>
    /\ UNCHANGED nonRegVars

\* Mutation: clear_cache forgets the registrations as well.
ClearCache_registrations ==
    /\ r_last = NoCall
    /\ r_initialized' = EmptyCache
    /\ r_providers' = <<>>
    /\ r_last' = NoCall
    /\ UNCHANGED <<r_env, r_policy>>
    /\ UNCHANGED nonRegVars

\* ModelProviderRegistry.clear_cache
ClearCache ==
    /\ r_last = NoCall
    /\ r_initialized' = EmptyCache
    /\ r_last' = NoCall
    /\ UNCHANGED <<r_providers, r_env, r_policy>>
    /\ UNCHANGED nonRegVars

\* ModelProviderRegistry.get_provider
GetProvider(provider_type, force_new) ==
    LET got == get_provider(r_providers, r_initialized, r_env, provider_type, force_new)
    IN  /\ r_last = NoCall
        /\ r_initialized' = got.initialized
        /\ r_last' = [op |-> "get_provider", arg |-> <<provider_type, force_new>>,
                      ret |-> got.provider,
                      warned |-> get_provider_warns(r_providers, r_initialized, r_env,
                                                    provider_type, force_new)]
        /\ UNCHANGED <<r_providers, r_env, r_policy>>
        /\ UNCHANGED nonRegVars

\* ModelProviderRegistry.get_provider_for_model
GetProviderForModel(model_name) ==
    LET got == get_provider_for_model(r_providers, r_initialized, r_env, r_policy,
                                      model_name)
    IN  /\ r_last = NoCall
        /\ r_initialized' = got.initialized
        /\ r_last' = [op |-> "get_provider_for_model", arg |-> model_name,
                      ret |-> got.provider]
        /\ UNCHANGED <<r_providers, r_env, r_policy>>
        /\ UNCHANGED nonRegVars

\* ModelProviderRegistry.get_available_models
GetAvailableModels(respect_restrictions) ==
    LET got == get_available_models(r_providers, r_initialized, r_env, r_policy,
                                    respect_restrictions)
    IN  /\ r_last = NoCall
        /\ r_initialized' = got.initialized
        /\ r_last' = [op |-> "get_available_models", arg |-> respect_restrictions,
                      ret |-> got.models]
        /\ UNCHANGED <<r_providers, r_env, r_policy>>
        /\ UNCHANGED nonRegVars

\* ModelProviderRegistry.get_preferred_fallback_model
GetPreferredFallbackModel(tool_category) ==
    LET got == get_preferred_fallback_model(r_providers, r_initialized, r_env, r_policy,
                                            tool_category)
    IN  /\ r_last = NoCall
        /\ r_initialized' = got.initialized
        /\ r_last' = [op |-> "get_preferred_fallback_model", arg |-> tool_category,
                      ret |-> got.model]
        /\ UNCHANGED <<r_providers, r_env, r_policy>>
        /\ UNCHANGED nonRegVars

\* The process environment changes between two calls on the registry: a
\* variable is set, changed or removed.
SetEnv(variable, value) ==
    /\ r_last = NoCall
    /\ r_env[variable] # value
    /\ r_env' = [r_env EXCEPT ![variable] = value]
    /\ UNCHANGED <<r_providers, r_initialized, r_policy, r_last>>
    /\ UNCHANGED nonRegVars

\* The caller takes the value the registry returned.
TakeResult ==
    /\ r_last # NoCall
    /\ r_last' = NoCall
    /\ UNCHANGED <<r_providers, r_initialized, r_env, r_policy>>
    /\ UNCHANGED nonRegVars

MethodReturn(ret) == [m_last EXCEPT !.done = TRUE, !.ret = ret]

\* provider.validate_model_name(model_name)
ValidateModelName ==
    /\ m_last.op = "validate_model_name" /\ ~m_last.done
    /\ m_last' = MethodReturn(validate_model_name(m_last.cls, r_policy, m_last.arg))
    /\ UNCHANGED nonProvVars

\* provider.get_capabilities(model_name)
GetCapabilities ==
    /\ m_last.op = "get_capabilities" /\ ~m_last.done
    /\ m_last' = MethodReturn(get_capabilities(m_last.cls, r_policy, m_last.arg))
    /\ UNCHANGED nonProvVars

\* provider.list_models(respect_restrictions)
ListModels ==
    /\ m_last.op = "list_models" /\ ~m_last.done
    /\ m_last' = MethodReturn(list_models(m_last.cls, r_policy, m_last.arg))
    /\ UNCHANGED nonProvVars

\* provider.get_preferred_model(category, allowed_models), with the allowed
\* models the registry computes for the provider
GetPreferredModel ==
    /\ m_last.op = "get_preferred_model" /\ ~m_last.done
    /\ m_last' = MethodReturn(get_preferred_model(m_last.cls, m_last.arg,
                      get_allowed_models_for_provider(m_last.cls,
                          get_provider_type(m_last.cls), r_policy)))
    /\ UNCHANGED nonProvVars

-----------------------------------------------------------------------------
(* Threads calling ModelProviderRegistry.get_provider at the same time.      *)
(* Neither __new__ nor get_provider takes a lock, so a thread can be         *)
(* preempted between any two of their statements.                            *)

NumThreads == 2
Threads == 1..NumThreads

\* The kinds the threads ask for.
ThreadKinds == {"OPENAI", "CUSTOM"}

\* cls._instance is None; no registry object and no provider object was made.
NoRegistry == [current |-> 0, made |-> 0, inited |-> {}, built |-> {}]

\* The registry after register_provider has run: one object with its two
\* dictionaries.
OneRegistry == [current |-> 1, made |-> 1, inited |-> {1}, built |-> {}]

\* The registrations made before the threads start.
ThreadRegistrations ==
    { <<[kind |-> "OPENAI", cls |-> "OpenAIModelProvider"]>>,
      <<[kind |-> "OPENAI", cls |-> "OpenAIModelProvider"],
        [kind |-> "CUSTOM", cls |-> custom_provider_factory]>> }

\* A thread about to call get_provider(kind).
ThreadStart(kind) ==
    [pc |-> "call", kind |-> kind, instance |-> 0, provider |-> NoProvider,
     ret |-> NoProvider, raised |-> "None"]

ThreadFrame == UNCHANGED nonThreadVars

\* __new__, line 31: `if cls._instance is None`
NewCheck(t) ==
    /\ t_call[t].pc = "call"
    /\ t_call' = [t_call EXCEPT ![t].pc =
                     IF t_registry.current = 0 THEN "new_alloc" ELSE "new_return"]
    /\ UNCHANGED <<t_registry, r_initialized>>
    /\ ThreadFrame

\* __new__, line 33: `cls._instance = super().__new__(cls)`, an object
\* without its dictionaries.
NewAlloc(t) ==
    /\ t_call[t].pc = "new_alloc"
    /\ t_registry' = [t_registry EXCEPT !.current = t_registry.made + 1,
                                        !.made = @ + 1]
    /\ t_call' = [t_call EXCEPT ![t].pc = "new_init"]
    /\ UNCHANGED r_initialized
    /\ ThreadFrame

\* __new__, lines 35-36: the two dictionaries are set on whatever object
\* cls._instance is now.
NewInit(t) ==
    /\ t_call[t].pc = "new_init"
    /\ t_registry' = [t_registry EXCEPT !.inited = @ \cup {t_registry.current}]
    /\ t_call' = [t_call EXCEPT ![t].pc = "new_return"]
    /\ UNCHANGED r_initialized
    /\ ThreadFrame

\* __new__, line 38, and get_provider, line 61: `instance = cls()`
NewReturn(t) ==
    /\ t_call[t].pc = "new_return"
    /\ t_call' = [t_call EXCEPT ![t].pc = "check",
                                ![t].instance = t_registry.current]
    /\ UNCHANGED <<t_registry, r_initialized>>
    /\ ThreadFrame

\* get_provider, lines 64-99: the cache test and every return before the
\* constructor call.  An object without dictionaries raises AttributeError;
\* an object that is not cls._instance any more has empty dictionaries.
CheckCache(t) ==
    /\ t_call[t].pc = "check"
    /\ LET kind == t_call[t].kind
           orphan == t_call[t].instance # t_registry.current
           providers == IF orphan THEN <<>> ELSE r_providers
           initialized == IF orphan THEN EmptyCache ELSE r_initialized
           got == get_provider(providers, initialized, r_env, kind, FALSE)
       IN  t_call' =
             IF t_call[t].instance \notin t_registry.inited
             THEN [t_call EXCEPT ![t].pc = "done", ![t].raised = "AttributeError"]
             ELSE IF kind \in DOMAIN initialized \/ got.provider = NoProvider
             THEN [t_call EXCEPT ![t].pc = "done", ![t].ret = got.provider]
             ELSE [t_call EXCEPT ![t].pc = "construct"]
    /\ UNCHANGED <<t_registry, r_initialized>>
    /\ ThreadFrame

\* get_provider, lines 80-101: provider_class(api_key=...) returns a new
\* object.
ConstructProvider(t) ==
    /\ t_call[t].pc = "construct"
    /\ LET made == get_provider(r_providers, EmptyCache, r_env, t_call[t].kind, TRUE).provider
           provider == [made EXCEPT !.id = Cardinality(t_registry.built) + 1]
       IN  /\ t_call' = [t_call EXCEPT ![t].pc = "store", ![t].provider = provider]
           /\ t_registry' = [t_registry EXCEPT !.built = @ \cup {provider}]
    /\ UNCHANGED r_initialized
    /\ ThreadFrame

\* get_provider, lines 103-105: the cache store and the return.
StoreProvider(t) ==
    /\ t_call[t].pc = "store"
    /\ r_initialized' = CacheStore(r_initialized, t_call[t].kind, t_call[t].provider)
    /\ t_call' = [t_call EXCEPT ![t].pc = "done", ![t].ret = t_call[t].provider]
    /\ UNCHANGED t_registry
    /\ ThreadFrame
-----------------------------------------------------------------------------
(* Specifications *)

vars == <<parseVars, valVars, consVars, regVars, provVars, threadVars>>

\* An entry text is chosen; nothing else is running.
InitParse ==
    /\ p_src \in ParseSources
    /\ p_entry = Render(p_src)
    /\ p_result = Pending
    /\ v_entries = <<>>
    /\ v_result = Pending
    /\ c_pc = "idle"
    /\ c_models = <<>>
    /\ c_continuation = FALSE
    /\ c_placeholders = 1
    /\ c_valid = <<>>
    /\ c_skipped = <<>>
    /\ c_idx = 0
    /\ c_cache = <<>>
    /\ c_pam = <<>>
    /\ c_responses = <<>>
    /\ c_output = NoOutput
    /\ c_raised = Nothing
    /\ c_log = EmptyLog
    /\ r_providers = <<>>
    /\ r_initialized = EmptyCache
    /\ r_env = [v \in EnvVars |-> ""]
    /\ r_last = NoCall
    /\ r_policy = NoRestrictions
    /\ m_last = NoMethodCall
    /\ t_call = <<>>
    /\ t_registry = NoRegistry

NextParse == ParseEntry

\* _parse_model_and_stance on one entry
SpecParse == InitParse /\ [][NextParse]_vars

\* A list of entries is chosen; nothing else is running.
InitValidate ==
    /\ v_entries \in UNION {[1..n -> ValidateEntryPool] : n \in 0..MaxEntries}
    /\ v_result = Pending
    /\ p_src = [form |-> "raw", text |-> <<>>, model |-> <<>>, token |-> <<>>,
                pads |-> NoPads]
    /\ p_entry = <<>>
    /\ p_result = Pending
    /\ c_pc = "idle"
    /\ c_models = <<>>
    /\ c_continuation = FALSE
    /\ c_placeholders = 1
    /\ c_valid = <<>>
    /\ c_skipped = <<>>
    /\ c_idx = 0
    /\ c_cache = <<>>
    /\ c_pam = <<>>
    /\ c_responses = <<>>
    /\ c_output = NoOutput
    /\ c_raised = Nothing
    /\ c_log = EmptyLog
    /\ r_providers = <<>>
    /\ r_initialized = EmptyCache
    /\ r_env = [v \in EnvVars |-> ""]
    /\ r_last = NoCall
    /\ r_policy = NoRestrictions
    /\ m_last = NoMethodCall
    /\ t_call = <<>>
    /\ t_registry = NoRegistry

NextValidate == ValidateEntries

\* _validate_model_combinations on one list
SpecValidate == InitValidate /\ [][NextValidate]_vars

\* A consensus request arrives; nothing else is running.
InitConsensus ==
    /\ c_models \in UNION {[1..n -> ConsensusEntryPool] : n \in 0..MaxModels}
    /\ c_continuation \in BOOLEAN
    /\ c_placeholders \in PlaceholderCounts
    /\ c_pc = "start"
    /\ c_valid = <<>>
    /\ c_skipped = <<>>
    /\ c_idx = 0
    /\ c_cache = <<>>
    /\ c_pam = <<>>
    /\ c_responses = <<>>
    /\ c_output = NoOutput
    /\ c_raised = Nothing
    /\ c_log = EmptyLog
    /\ p_src = [form |-> "raw", text |-> <<>>, model |-> <<>>, token |-> <<>>,
                pads |-> NoPads]
    /\ p_entry = <<>>
    /\ p_result = Pending
    /\ v_entries = <<>>
    /\ v_result = Pending
    /\ r_providers = <<>>
    /\ r_initialized = EmptyCache
    /\ r_env = [v \in EnvVars |-> ""]
    /\ r_last = NoCall
    /\ r_policy = NoRestrictions
    /\ m_last = NoMethodCall
    /\ t_call = <<>>
    /\ t_registry = NoRegistry

Next ==
    \/ ExecuteValidate
    \/ \E oversized \in BOOLEAN : PreparePrompt(oversized)
    \/ \E available \in BOOLEAN : LookupProvider(available)
    \/ \E outcome \in BackendOutcomes : CallModel(outcome)
    \/ ResumeDispatch
    \/ FormatAndStore
    \/ Cancel

\* One consensus execution
Spec == InitConsensus /\ [][Next]_vars


\* The steps of _get_consensus_responses and of execute after it.
DispatchStep ==
    \/ \E outcome \in BackendOutcomes : CallModel(outcome)
    \/ CallNeverReturns
    \/ ResumeDispatch
    \/ FormatAndStore

NextDispatch ==
    \/ ExecuteValidate
    \/ \E oversized \in BOOLEAN : PreparePrompt(oversized)
    \/ \E available \in BOOLEAN : LookupProvider(available)
    \/ DispatchStep
    \/ Cancel

\* Where execute stands; every step of execute changes it.
position == <<c_pc, c_idx>>

\* One consensus execution on a running event loop: once the dispatch loop is
\* entered, the coroutine takes its next step whenever it can take one; a
\* backend call may never return.
SpecDispatch ==
    InitConsensus /\ [][NextDispatch]_vars /\ WF_position(DispatchStep)


\* The registry is empty; the environment and the restriction policy are those
\* the process was started with.
InitRegistry ==
    /\ r_providers = <<>>
    /\ r_initialized = EmptyCache
    /\ r_env \in EnvPool
    /\ r_policy \in PolicyPool
    /\ r_last = NoCall
    /\ m_last = NoMethodCall
    /\ p_src = [form |-> "raw", text |-> <<>>, model |-> <<>>, token |-> <<>>,
                pads |-> NoPads]
    /\ p_entry = <<>>
    /\ p_result = Pending
    /\ v_entries = <<>>
    /\ v_result = Pending
    /\ c_pc = "idle"
    /\ c_models = <<>>
    /\ c_continuation = FALSE
    /\ c_placeholders = 1
    /\ c_valid = <<>>
    /\ c_skipped = <<>>
    /\ c_idx = 0
    /\ c_cache = <<>>
    /\ c_pam = <<>>
    /\ c_responses = <<>>
    /\ c_output = NoOutput
    /\ c_raised = Nothing
    /\ c_log = EmptyLog
    /\ t_call = <<>>
    /\ t_registry = NoRegistry

NextRegistry ==
    \/ \E choice \in RegisterChoices : RegisterProvider(choice[1], choice[2])
    \/ \E provider_type \in ProviderType : UnregisterProvider(provider_type)
    \/ ClearCache
    \/ \E provider_type \in ProviderType : GetProvider(provider_type, FALSE)
    \/ \E model_name \in RegistryQueryNames : GetProviderForModel(model_name)
    \/ \E respect_restrictions \in BOOLEAN : GetAvailableModels(respect_restrictions)
    \/ \E tool_category \in ToolModelCategory \cup {"None"} :
           GetPreferredFallbackModel(tool_category)
    \/ TakeResult

\* Calls on the registry, in any order
SpecRegistry == InitRegistry /\ [][NextRegistry]_vars

\* The registry is empty and the environment is the one the process starts
\* with.
InitCache ==
    /\ r_providers = <<>>
    /\ r_initialized = EmptyCache
    /\ r_env \in {[v \in EnvVars |-> ""], [v \in EnvVars |-> EnvValue(v)]}
    /\ r_policy = NoRestrictions
    /\ r_last = NoCall
    /\ m_last = NoMethodCall
    /\ p_src = [form |-> "raw", text |-> <<>>, model |-> <<>>, token |-> <<>>,
                pads |-> NoPads]
    /\ p_entry = <<>>
    /\ p_result = Pending
    /\ v_entries = <<>>
    /\ v_result = Pending
    /\ c_pc = "idle"
    /\ c_models = <<>>
    /\ c_continuation = FALSE
    /\ c_placeholders = 1
    /\ c_valid = <<>>
    /\ c_skipped = <<>>
    /\ c_idx = 0
    /\ c_cache = <<>>
    /\ c_pam = <<>>
    /\ c_responses = <<>>
    /\ c_output = NoOutput
    /\ c_raised = Nothing
    /\ c_log = EmptyLog
    /\ t_call = <<>>
    /\ t_registry = NoRegistry

NextCache ==
    \/ \E choice \in CacheRegisterChoices : RegisterProvider(choice[1], choice[2])
    \/ \E provider_type \in CacheKinds : UnregisterProvider(provider_type)
    \/ ClearCache
    \/ \E provider_type \in CacheKinds, force_new \in BOOLEAN :
           GetProvider(provider_type, force_new)
    \/ \E variable \in CacheEnvVars : \E value \in CacheEnvValues(variable) :
           SetEnv(variable, value)
    \/ TakeResult

\* Registrations, environment changes and get_provider calls, forced or not,
\* in any order
SpecCache == InitCache /\ [][NextCache]_vars

\* A provider instance built directly is about to be called, under the policy
\* the process was started with.
InitProvider ==
    /\ r_policy \in PolicyPool
    /\ m_last \in ProviderCalls
    /\ r_providers = <<>>
    /\ r_initialized = EmptyCache
    /\ r_env = [v \in EnvVars |-> ""]
    /\ r_last = NoCall
    /\ p_src = [form |-> "raw", text |-> <<>>, model |-> <<>>, token |-> <<>>,
                pads |-> NoPads]
    /\ p_entry = <<>>
    /\ p_result = Pending
    /\ v_entries = <<>>
    /\ v_result = Pending
    /\ c_pc = "idle"
    /\ c_models = <<>>
    /\ c_continuation = FALSE
    /\ c_placeholders = 1
    /\ c_valid = <<>>
    /\ c_skipped = <<>>
    /\ c_idx = 0
    /\ c_cache = <<>>
    /\ c_pam = <<>>
    /\ c_responses = <<>>
    /\ c_output = NoOutput
    /\ c_raised = Nothing
    /\ c_log = EmptyLog
    /\ t_call = <<>>
    /\ t_registry = NoRegistry

NextProvider ==
    \/ ValidateModelName
    \/ GetCapabilities
    \/ ListModels
    \/ GetPreferredModel

\* One method call on a provider instance
SpecProvider == InitProvider /\ [][NextProvider]_vars

\* Threads about to call get_provider: on a process that has not used the
\* registry yet, or after the registrations of start-up.
InitThreads ==
    /\ t_registry \in {NoRegistry, OneRegistry}
    /\ r_providers \in IF t_registry = NoRegistry THEN {<<>>} ELSE ThreadRegistrations
    /\ r_initialized = EmptyCache
    /\ r_env \in {[v \in EnvVars |-> ""], [v \in EnvVars |-> EnvValue(v)]}
    /\ r_policy = NoRestrictions
    /\ r_last = NoCall
    /\ t_call \in [Threads -> {ThreadStart(kind) : kind \in ThreadKinds}]
    /\ m_last = NoMethodCall
    /\ p_src = [form |-> "raw", text |-> <<>>, model |-> <<>>, token |-> <<>>,
                pads |-> NoPads]
    /\ p_entry = <<>>
    /\ p_result = Pending
    /\ v_entries = <<>>
    /\ v_result = Pending
    /\ c_pc = "idle"
    /\ c_models = <<>>
    /\ c_continuation = FALSE
    /\ c_placeholders = 1
    /\ c_valid = <<>>
    /\ c_skipped = <<>>
    /\ c_idx = 0
    /\ c_cache = <<>>
    /\ c_pam = <<>>
    /\ c_responses = <<>>
    /\ c_output = NoOutput
    /\ c_raised = Nothing
    /\ c_log = EmptyLog

NextThreads ==
    \/ \E t \in Threads : NewCheck(t)
    \/ \E t \in Threads : NewAlloc(t)
    \/ \E t \in Threads : NewInit(t)
    \/ \E t \in Threads : NewReturn(t)
    \/ \E t \in Threads : CheckCache(t)
    \/ \E t \in Threads : ConstructProvider(t)
    \/ \E t \in Threads : StoreProvider(t)

\* Concurrent get_provider calls
SpecThreads == InitThreads /\ [][NextThreads]_vars

-----------------------------------------------------------------------------
(* Properties of stance parsing *)

\* The parser was given a rendered entry with a model name and has returned.
ParsedNamed ==
    /\ p_result # Pending
    /\ p_src.form \in {"bare", "colon"}
    /\ p_src.model # <<>>

\* C8: for a non-empty model name m, 'm:s' with any padding and s in any letter
\* case parses to (m, for) when s is for/support/favor, to (m, against) when s is
\* against/oppose/critical, and to (m, neutral) when the stance is omitted or empty.
C8_StanceSynonyms ==
    ParsedNamed =>
        /\ (p_src.form = "colon" /\ p_src.token \in Cased(supportive_stances))
               => p_result = <<p_src.model, <<"f", "o", "r">>>>
        /\ (p_src.form = "colon" /\ p_src.token \in Cased(critical_stances))
               => p_result = <<p_src.model, <<"a", "g", "a", "i", "n", "s", "t">>>>
        /\ (p_src.form = "bare" \/ p_src.token = <<>>)
               => p_result = <<p_src.model, <<"n", "e", "u", "t", "r", "a", "l">>>>

C8_Witness ==
    /\ p_src.form = "colon"
    /\ p_src.model = <<"o", "3">>
    /\ p_src.token = <<"S", "U", "P", "P", "O", "R", "T">>
    /\ p_src.pads = <<<<" ">>, <<" ">>, <<" ">>, <<" ">>>>
    /\ p_result = <<<<"o", "3">>, <<"f", "o", "r">>>>

\* The entry has a model name and a non-empty stance token outside `words`
\* (whatever the letter case), and the parser has returned.
ParsedOtherToken(words) ==
    /\ ParsedNamed
    /\ p_src.form = "colon"
    /\ p_src.token # <<>>
    /\ p_src.token \notin Cased(words)

\* The result is the rejection that names the token, as lower-cased by the parser.
RejectedAsInvalidStance ==
    /\ p_result[1] = None
    /\ Contains(p_result[2], <<"i", "n", "v", "a", "l", "i", "d", " ", "s", "t", "a", "n", "c", "e">>)
    /\ Contains(p_result[2], <<"'">> \o StrLower(p_src.token) \o <<"'">>)

LacksModelName(entry) ==
    \/ \A i \in 1..Len(entry) : entry[i] \in Whitespace
    \/ (entry # <<>> /\ entry[1] = ":")
    \/ (p_src.form \in {"bare", "colon"} /\ p_src.model = <<>>)

\* C10: an entry without a model name is rejected with a reason containing
\* 'empty', whatever its stance part; and every input gives either a pair
\* (model, stance) with stance in {for, against, neutral} or a rejection with a reason.
C10_EmptyModelRejectedAndTotal ==
    p_result # Pending =>
        /\ LacksModelName(p_entry)
               => (p_result[1] = None /\ Contains(p_result[2], <<"e", "m", "p", "t", "y">>))
        /\ \/ /\ p_result[1] # None
              /\ p_result[1] # <<>>
              /\ p_result[2] \in {<<"f", "o", "r">>, <<"a", "g", "a", "i", "n", "s", "t">>, <<"n", "e", "u", "t", "r", "a", "l">>}
           \/ /\ p_result[1] = None
              /\ p_result[2] # <<>>

C10_Witness ==
    /\ p_entry = <<":", "f", "o", "r">>
    /\ p_result = <<None, <<"m", "o", "d", "e", "l", " ", "n", "a", "m", "e", " ", "c", "a", "n", "n", "o", "t", " ", "b", "e", " ", "e", "m", "p", "t", "y">>>>

-----------------------------------------------------------------------------
(* Properties of combination validation *)

\* What each entry text of the pool asks for, written out by hand:
\* a (model, stance) pair, or None for an entry that must be rejected.
EntryMeaning(entry) ==
    CASE entry = <<"o", "3", ":", "f", "o", "r">> -> <<<<"o", "3">>, <<"f", "o", "r">>>>
      [] entry = <<"o", "3", ":", "s", "u", "p", "p", "o", "r", "t">> -> <<<<"o", "3">>, <<"f", "o", "r">>>>
      [] entry = <<" ", "o", "3", " ", ":", " ", "F", "A", "V", "O", "R">> -> <<<<"o", "3">>, <<"f", "o", "r">>>>
      [] entry = <<"o", "3">> -> <<<<"o", "3">>, <<"n", "e", "u", "t", "r", "a", "l">>>>
      [] entry = <<"o", "3", ":", "a", "g", "a", "i", "n", "s", "t">> -> <<<<"o", "3">>, <<"a", "g", "a", "i", "n", "s", "t">>>>
      [] entry = <<"p", "r", "o", ":", "f", "o", "r">> -> <<<<"p", "r", "o">>, <<"f", "o", "r">>>>
      [] OTHER -> None

\* Number of positions of sequence s whose element satisfies being equal to x.
Occurrences(s, x) == Cardinality({i \in 1..Len(s) : s[i] = x})

\* Number of entries of the list that ask for `pair`.
Requested(entries, pair) ==
    Cardinality({i \in 1..Len(entries) : EntryMeaning(entries[i]) = pair})

RequestedPairs(entries) ==
    {EntryMeaning(entries[i]) : i \in 1..Len(entries)} \ {None}

\* C3: no (model, stance) pair occurs more than twice in the valid list; a pair
\* requested N > 2 times is accepted exactly twice and skipped N - 2 times, each
\* skip carrying the text 'max 2 instances'.
C3_AtMostTwoPerPair ==
    v_result # Pending =>
        LET valid == v_result[1]
            skipped == v_result[2]
        IN  /\ \A i \in 1..Len(valid) : Occurrences(valid, valid[i]) <= 2
            /\ \A pair \in RequestedPairs(v_entries) :
                   LET n == Requested(v_entries, pair)
                       capped == {i \in 1..Len(skipped) :
                                     /\ Contains(skipped[i], <<"m", "a", "x", " ", "2", " ", "i", "n", "s", "t", "a", "n", "c", "e", "s">>)
                                     /\ SubSeq(skipped[i], 1, Len(pair[1]) + 1 + Len(pair[2]))
                                            = pair[1] \o <<":">> \o pair[2]}
                   IN  n > 2 => /\ Occurrences(valid, pair) = 2
                                /\ Cardinality(capped) = n - 2

C3_Witness ==
    /\ v_entries = <<<<"o", "3", ":", "f", "o", "r">>, <<"o", "3", ":", "s", "u", "p", "p", "o", "r", "t">>, <<" ", "o", "3", " ", ":", " ", "F", "A", "V", "O", "R">>, <<"o", "3", ":", "f", "o", "r">>>>
    /\ v_result = << <<(<<<<"o", "3">>, <<"f", "o", "r">>>>), (<<<<"o", "3">>, <<"f", "o", "r">>>>)>>,
                     <<<<"o", "3", ":", "f", "o", "r", " ", "(", "m", "a", "x", " ", "2", " ", "i", "n", "s", "t", "a", "n", "c", "e", "s", ")">>, <<"o", "3", ":", "f", "o", "r", " ", "(", "m", "a", "x", " ", "2", " ", "i", "n", "s", "t", "a", "n", "c", "e", "s", ")">>>> >>

-----------------------------------------------------------------------------
(* Properties of a consensus execution *)

\* The dispatch loop has returned and execute has gone on to build its result.
AggregateReached ==
    \/ c_pc = "format_sleep"
    \/ (c_pc = "done" /\ c_pam # <<>>)

\* Response i is the entry of call i: same model and stance, success when the
\* call returned, otherwise an error entry carrying the text that was raised.
EntryOfCall(response, call) ==
    /\ response.model = call.model
    /\ response.stance = call.stance
    /\ IF call.raised = <<"o", "k">>
       THEN response.status = "success"
       ELSE response.status = "error" /\ response.error = call.raised

\* C1: every call made so far has exactly one response entry, an error entry
\* with the raised text when the call failed; and when the aggregate is built,
\* every dispatched combination was called, in dispatch order, whatever the
\* outcomes of the earlier calls.
C1_OneEntryPerDispatchedCall ==
    /\ Len(c_responses) = Len(c_log.calls)
    /\ \A i \in 1..Len(c_log.calls) : EntryOfCall(c_responses[i], c_log.calls[i])
    /\ AggregateReached =>
           /\ Len(c_log.calls) = Len(c_pam)
           /\ \A i \in 1..Len(c_pam) :
                  /\ c_log.calls[i].model = c_pam[i][2]
                  /\ c_log.calls[i].stance = c_pam[i][3]

C1_Witness ==
    /\ c_pc = "done"
    /\ Len(c_pam) = 3
    /\ Len(c_responses) = 3
    /\ c_log.calls[1].raised = <<"t", "i", "m", "e", "o", "u", "t">>
    /\ c_responses[1].status = "error"
    /\ c_responses[1].error = <<"t", "i", "m", "e", "o", "u", "t">>
    /\ c_responses[3].status = "success"

\* execute has returned a JSON object after dispatching at least one call.
ReturnedAfterDispatch == c_pc = "done" /\ c_log.calls # <<>>

SomeCallSucceeded == \E i \in 1..Len(c_log.calls) : c_log.calls[i].raised = <<"o", "k">>

\* C2: after at least one dispatched call, the returned status is
\* consensus_success exactly when some call succeeded; when all calls failed it
\* is consensus_failed with the 'all model calls failed' message and without
\* the fields of a success report.
C2_SuccessIffSomeCallSucceeded ==
    ReturnedAfterDispatch =>
        /\ (c_output.status = <<"c", "o", "n", "s", "e", "n", "s", "u", "s", "_", "s", "u", "c", "c", "e", "s", "s">>) <=> SomeCallSucceeded
        /\ ~SomeCallSucceeded =>
               /\ c_output.status = <<"c", "o", "n", "s", "e", "n", "s", "u", "s", "_", "f", "a", "i", "l", "e", "d">>
               /\ Contains(StrLower(c_output.error), <<"a", "l", "l", " ", "m", "o", "d", "e", "l", " ", "c", "a", "l", "l", "s", " ", "f", "a", "i", "l", "e", "d">>)
               /\ "responses" \notin DOMAIN c_output
               /\ "models_used" \notin DOMAIN c_output

C2_Witness ==
    /\ ReturnedAfterDispatch
    /\ \E i \in 1..Len(c_log.calls) : c_log.calls[i].raised = <<"A", "P", "I", " ", "e", "r", "r", "o", "r">>
    /\ SomeCallSucceeded
    /\ c_output.status = <<"c", "o", "n", "s", "e", "n", "s", "u", "s", "_", "s", "u", "c", "c", "e", "s", "s">>
    /\ c_output.models_errored # <<>>

-----------------------------------------------------------------------------
(* Properties of the registry and of the providers *)

\* The restriction policy denies model_name for the provider kind.
Denies(provider_type, model_name) ==
    provider_type \in DOMAIN r_policy /\ model_name \notin r_policy[provider_type]

\* The provider of class cls was asked for a name that stands for a model
\* the policy denies it.
AskedDeniedModel(cls, requested) ==
    Denies(get_provider_type(cls), resolve_model_name(cls, requested))

\* A method call has returned.
Called(op) == m_last.op = op /\ m_last.done

\* Asked for a denied model, validate_model_name answers false.
DeniedModelNotValidated ==
    (Called("validate_model_name") /\ AskedDeniedModel(m_last.cls, m_last.arg))
        => m_last.ret = FALSE

\* Asked for a denied model, get_capabilities raises.
DeniedModelCapabilitiesRaise ==
    (Called("get_capabilities") /\ AskedDeniedModel(m_last.cls, m_last.arg))
        => m_last.ret.raised # <<>>

\* get_provider_for_model returns no provider that is denied the model.
DeniedModelNotRouted ==
    (r_last.op = "get_provider_for_model" /\ r_last.ret # NoProvider)
        => ~AskedDeniedModel(r_last.ret.cls, r_last.arg)

\* get_available_models() lists no model under a kind that is denied it.
DeniedModelNotListed ==
    (r_last.op = "get_available_models" /\ r_last.arg = TRUE)
        => \A n \in DOMAIN r_last.ret : ~Denies(r_last.ret[n], n)

\* C4: when the restriction policy denies model X for provider P, validating
\* X through P returns false, asking P for X's capabilities raises,
\* get_provider_for_model(X) never returns P and get_available_models never
\* lists X for P.
C4_Original ==
    /\ DeniedModelNotValidated
    /\ DeniedModelCapabilitiesRaise
    /\ DeniedModelNotRouted
    /\ DeniedModelNotListed

\* What remains of C4 for every provider class except VertexAIProvider's
\* capabilities.
C4_ExceptVertexCapabilities ==
    /\ DeniedModelNotValidated
    /\ m_last.cls # "VertexAIProvider" => DeniedModelCapabilitiesRaise
    /\ DeniedModelNotRouted
    /\ DeniedModelNotListed

\* get_available_models(respect_restrictions=False) in the current state
UnrestrictedListing ==
    get_available_models(r_providers, r_initialized, r_env, r_policy, FALSE).models

\* The unrestricted listing, filtered by hand with the policy.
FilteredByHand ==
    {n \in DOMAIN UnrestrictedListing : is_allowed(r_policy, UnrestrictedListing[n], n)}

\* C5: the model names of get_available_models(respect_restrictions=True) are
\* those of get_available_models(respect_restrictions=False) filtered by the
\* same policy, also when several providers list the same model name.
C5_Original ==
    (r_last.op = "get_available_models" /\ r_last.arg = TRUE)
        => DOMAIN r_last.ret = FilteredByHand

\* The provider get_provider would hand out for a registered kind can be built
\* from the environment.
Constructible(provider_type) ==
    /\ provider_type \in Registered(r_providers)
    /\ IF provider_type = "CUSTOM"
       THEN \/ ProviderClassOf(r_providers, provider_type) = custom_provider_factory
            \/ r_env["CUSTOM_API_URL"] # ""
       ELSE /\ provider_type \in DOMAIN key_mapping
            /\ r_env[key_mapping[provider_type]] # ""

Obtainable(provider_type) ==
    /\ provider_type \in Registered(r_providers)
    /\ provider_type \in DOMAIN r_initialized \/ Constructible(provider_type)

\* The class of the instance get_provider hands out for an obtainable kind.
InstanceClass(provider_type) ==
    IF provider_type \in DOMAIN r_initialized THEN r_initialized[provider_type].cls
    ELSE IF ProviderClassOf(r_providers, provider_type) = custom_provider_factory
    THEN "CustomProvider"
    ELSE ProviderClassOf(r_providers, provider_type)

\* Names listed by two obtainable providers.
ListedTwice ==
    {n \in DOMAIN UnrestrictedListing :
        \E i, j \in 1..Len(r_providers) :
            /\ i # j
            /\ Obtainable(r_providers[i].kind) /\ Obtainable(r_providers[j].kind)
            /\ InList(n, list_models(InstanceClass(r_providers[i].kind), r_policy, FALSE))
            /\ InList(n, list_models(InstanceClass(r_providers[j].kind), r_policy, FALSE))}

\* What remains of C5 when no model name is listed by two providers.
C5_WithoutSharedNames ==
    (r_last.op = "get_available_models" /\ r_last.arg = TRUE /\ ListedTwice = {})
        => DOMAIN r_last.ret = FilteredByHand

\* The models of the table of an instance that the policy allows its kind.
AllowedModelsOf(provider_type) ==
    {n \in Keys(SUPPORTED_MODELS(r_initialized[provider_type].cls)) :
        ~Denies(provider_type, n)}

\* No provider the registry holds has a model it may serve.
NoModelAnywhere == \A k \in DOMAIN r_initialized : AllowedModelsOf(k) = {}

ModelNameChars == {AsciiChars[i] : i \in 1..Len(AsciiChars)}

\* C6: get_preferred_fallback_model always returns a non-empty model name,
\* never None, and 'gemini-2.5-flash' when no provider has an allowed model.
C6_AlwaysAModelName ==
    r_last.op = "get_preferred_fallback_model" =>
        /\ r_last.ret # None
        /\ Len(r_last.ret) > 0
        /\ \A i \in 1..Len(r_last.ret) : r_last.ret[i] \in ModelNameChars
        /\ NoModelAnywhere => r_last.ret = <<"g", "e", "m", "i", "n", "i", "-", "2", ".", "5", "-", "f", "l", "a", "s", "h">>

C6_Witness ==
    /\ r_last.op = "get_preferred_fallback_model"
    /\ r_last.arg = "EXTENDED_REASONING"
    /\ "OPENAI" \in DOMAIN r_initialized
    /\ "GOOGLE" \notin Registered(r_providers)
    /\ AllowedModelsOf("OPENAI") = {}
    /\ r_last.ret = <<"g", "e", "m", "i", "n", "i", "-", "2", ".", "5", "-", "f", "l", "a", "s", "h">>

\* The priority of the kinds as the registry documents it.
ClaimedOrder == <<"GOOGLE", "OPENAI", "XAI", "DIAL", "CUSTOM", "OPENROUTER">>

\* The kind is registered, its provider can be obtained and validates the name.
Serves(provider_type, model_name) ==
    /\ Obtainable(provider_type)
    /\ validate_model_name(InstanceClass(provider_type), r_policy, model_name)

\* C7: get_provider_for_model returns the provider of the first kind, in the
\* order GOOGLE, OPENAI, XAI, DIAL, CUSTOM, OPENROUTER, that is registered,
\* obtainable and validates the name, and none when there is no such kind;
\* the order of registration does not matter.
C7_FixedPriorityOrder ==
    r_last.op = "get_provider_for_model" =>
        LET serving == {i \in 1..Len(ClaimedOrder) : Serves(ClaimedOrder[i], r_last.arg)}
        IN  IF serving = {} THEN r_last.ret = NoProvider
            ELSE LET first == ClaimedOrder[CHOOSE i \in serving : \A j \in serving : i <= j]
                 IN  /\ first \in DOMAIN r_initialized
                     /\ r_last.ret = r_initialized[first]
                     /\ get_provider_type(r_last.ret.cls) = first

C7_Witness ==
    /\ r_last.op = "get_provider_for_model"
    /\ Len(r_providers) = 2
    /\ r_providers[1].kind = "OPENROUTER"
    /\ r_providers[2].kind = "CUSTOM"
    /\ Serves("OPENROUTER", r_last.arg)
    /\ Serves("CUSTOM", r_last.arg)
    /\ r_last.ret.cls = "CustomProvider"

\* The elements of a finite set of naturals in increasing order.
RECURSIVE Ascending(_)
Ascending(S) ==
    IF S = {} THEN <<>>
    ELSE LET m == CHOOSE x \in S : \A y \in S : x <= y
         IN  <<m>> \o Ascending(S \ {m})

\* Entry i parses, and fewer than two earlier entries ask for the same pair.
AcceptedAt(entries, i) ==
    /\ EntryMeaning(entries[i]) # None
    /\ Cardinality({j \in 1..(i - 1) : EntryMeaning(entries[j]) = EntryMeaning(entries[i])}) < 2

\* The skip record expected for entry i when it is not accepted.
SkipRecordAt(entries, i) ==
    IF EntryMeaning(entries[i]) = None
    THEN entries[i] \o <<" ", "(">> \o parse_model_and_stance(entries[i])[2] \o <<")">>
    ELSE EntryMeaning(entries[i])[1] \o <<":">> \o EntryMeaning(entries[i])[2]
             \o <<" ", "(", "m", "a", "x", " ", "2", " ", "i", "n", "s", "t", "a", "n", "c", "e", "s", ")">>

\* C11: validation never drops an entry silently: every input entry ends up in
\* exactly one of valid or skipped, so the two lengths add up to the number of
\* entries; an entry that fails parsing is skipped with its parse reason and an
\* entry over the cap is skipped with the cap reason.
C11_EveryEntryAccountedFor ==
    v_result # Pending =>
        LET valid == v_result[1]
            skipped == v_result[2]
            n == Len(v_entries)
            kept == Ascending({i \in 1..n : AcceptedAt(v_entries, i)})
            left == Ascending({i \in 1..n : ~AcceptedAt(v_entries, i)})
        IN  /\ Len(valid) + Len(skipped) = n
            /\ skipped = [k \in 1..Len(left) |-> SkipRecordAt(v_entries, left[k])]
            /\ Len(valid) = Len(kept)
            /\ \A i \in 1..n :
                   EntryMeaning(v_entries[i]) = None =>
                       /\ parse_model_and_stance(v_entries[i])[1] = None
                       /\ \E k \in 1..Len(skipped) :
                              skipped[k] = parse_skip_text(v_entries[i],
                                               parse_model_and_stance(v_entries[i])[2])

\* A list with a parse failure and an entry over the cap has been validated.
C11_Witness ==
    /\ v_entries = <<<<"o", "3", ":", "f", "o", "r">>, <<"o", "3", ":", "m", "a", "y", "b", "e">>, <<"o", "3", ":", "s", "u", "p", "p", "o", "r", "t">>, <<"o", "3", ":", "f", "o", "r">>>>
    /\ v_result # Pending
    /\ Len(v_result[1]) = 2
    /\ Len(v_result[2]) = 2
    /\ v_result[2][2] = <<"o", "3", ":", "f", "o", "r", " ", "(", "m", "a", "x", " ", "2", " ", "i", "n", "s", "t", "a", "n", "c", "e", "s", ")">>
    /\ Contains(v_result[2][1], <<"o", "3", ":", "m", "a", "y", "b", "e", " ", "(">>)

\* Entry i of the request parses, and fewer than two earlier entries parse to
\* the same (model, stance) pair.
AcceptedEntry(parsed, i) ==
    /\ parsed[i][1] # None
    /\ Cardinality({j \in 1..(i - 1) : parsed[j] = parsed[i]}) < 2

\* What each entry of the request parses to.
ParsedEntries(models) ==
    [i \in 1..Len(models) |-> parse_model_and_stance(models[i])] \o <<>>

\* `sub` is `full` with some positions left out, the order unchanged.
RECURSIVE OrderedSelection(_, _)
OrderedSelection(sub, full) ==
    IF sub = <<>> THEN TRUE
    ELSE IF full = <<>> THEN FALSE
    ELSE IF Head(sub) = Head(full) THEN OrderedSelection(Tail(sub), Tail(full))
    ELSE OrderedSelection(sub, Tail(full))

\* The (model, stance) pairs of the dispatch list and of a list of responses.
PairsOfDispatch(pam) == [i \in 1..Len(pam) |-> <<pam[i][2], pam[i][3]>>]

PairsOfResponses(responses) ==
    [i \in 1..Len(responses) |-> <<responses[i].model, responses[i].stance>>]

\* C12: the valid list is the parsed accepted entries in input order, and that
\* order is kept by provider resolution, by dispatch and by the responses list
\* of the aggregate.
C12_InputOrderPreserved ==
    c_pc # "start" =>
        LET parsed == ParsedEntries(c_models)
            kept == Ascending({i \in 1..Len(c_models) : AcceptedEntry(parsed, i)})
        IN  /\ c_valid = [k \in 1..Len(kept) |-> parsed[kept[k]]]
            /\ OrderedSelection(PairsOfDispatch(c_pam), c_valid)
            /\ PairsOfResponses(c_responses)
                   = SubSeq(PairsOfDispatch(c_pam), 1, Len(c_responses))
            /\ (c_pc = "done" /\ "responses" \in DOMAIN c_output) =>
                   PairsOfResponses(c_output.responses) = PairsOfDispatch(c_pam)

\* Three entries, the middle one rejected, the other two resolved, called and
\* reported in request order.
C12_Witness ==
    /\ c_models = <<<<"o", "3", ":", "a", "g", "a", "i", "n", "s", "t">>, <<"o", "3", ":", "m", "a", "y", "b", "e">>, <<"p", "r", "o", ":", "s", "u", "p", "p", "o", "r", "t">>>>
    /\ c_pc = "done"
    /\ "responses" \in DOMAIN c_output
    /\ PairsOfResponses(c_output.responses)
           = << <<<<"o", "3">>, <<"a", "g", "a", "i", "n", "s", "t">>>>, <<<<"p", "r", "o">>, <<"f", "o", "r">>>> >>

\* How a response is named in the report lists.
ReportedName(response) ==
    IF response.stance \in {<<"f", "o", "r">>, <<"a", "g", "a", "i", "n", "s", "t">>}
    THEN response.model \o <<":">> \o response.stance
    ELSE response.model

\* The aggregate report of _format_consensus_output has been returned.
AggregateReturned == c_pc = "done" /\ "responses" \in DOMAIN c_output

\* C13: in the aggregate every response is named in exactly one of models_used
\* (success) or models_errored (error), each in response order, as 'model:stance'
\* for the for/against stances and as the bare model for neutral; responses
\* holds one entry per response with its stance, and models_skipped is the list
\* of skipped entries.
C13_AggregateListsPartitionResponses ==
    AggregateReturned =>
        LET ok == Ascending({i \in 1..Len(c_responses) : c_responses[i].status = "success"})
            bad == Ascending({i \in 1..Len(c_responses) : c_responses[i].status = "error"})
        IN  /\ Len(ok) + Len(bad) = Len(c_responses)
            /\ c_output.models_used = [k \in 1..Len(ok) |-> ReportedName(c_responses[ok[k]])]
            /\ c_output.models_errored
                   = [k \in 1..Len(bad) |-> ReportedName(c_responses[bad[k]])]
            /\ Len(c_output.responses) = Len(c_responses)
            /\ \A i \in 1..Len(c_responses) :
                   /\ c_output.responses[i].model = c_responses[i].model
                   /\ c_output.responses[i].stance = c_responses[i].stance
                   /\ c_output.responses[i].status = c_responses[i].status
            /\ c_output.models_skipped = c_skipped
            /\ (LET parsed == ParsedEntries(c_models)
                IN  \A i \in 1..Len(c_models) : AcceptedEntry(parsed, i))
                   /\ Len(c_pam) = Len(c_valid)
                   => c_output.models_skipped = <<>>

\* Two successful requests, one for and one against, and nothing skipped.
C13_Witness ==
    /\ AggregateReturned
    /\ c_models = <<<<"o", "3", ":", "f", "o", "r">>, <<"o", "3", ":", "a", "g", "a", "i", "n", "s", "t">>>>
    /\ c_output.models_used = <<<<"o", "3", ":", "f", "o", "r">>, <<"o", "3", ":", "a", "g", "a", "i", "n", "s", "t">>>>
    /\ c_output.models_errored = <<>>
    /\ c_output.models_skipped = <<>>

\* A neutral success and a failed call are reported in their own lists.
C13_WitnessNeutral ==
    /\ AggregateReturned
    /\ c_output.models_used = <<<<"o", "3">>>>
    /\ c_output.models_errored = <<<<"p", "r", "o", ":", "f", "o", "r">>>>
    /\ c_output.models_skipped # <<>>

\* The request has entries and validation accepts none of them.
NothingSurvives ==
    /\ c_models # <<>>
    /\ LET parsed == ParsedEntries(c_models)
       IN  \A i \in 1..Len(c_models) : ~AcceptedEntry(parsed, i)

\* C14: when no entry of the request survives validation, the tool returns
\* status consensus_failed with every rejected entry and its reason in
\* models_skipped, and that execution makes no provider lookup and no backend
\* generation call.
C14_NoValidEntryFailsWithoutCalls ==
    (c_pc # "start" /\ NothingSurvives) =>
        /\ c_pc = "done"
        /\ c_raised = Nothing
        /\ c_output.status = <<"c", "o", "n", "s", "e", "n", "s", "u", "s", "_", "f", "a", "i", "l", "e", "d">>
        /\ c_output.models_skipped
               = [i \in 1..Len(c_models) |->
                     c_models[i] \o <<" ", "(">> \o parse_model_and_stance(c_models[i])[2] \o <<")">>]
        /\ c_log.lookups = <<>>
        /\ c_log.calls = <<>>
        /\ c_log.generations = 0
        /\ c_cache = <<>>

\* The only entry has an invalid stance and the execution has returned.
C14_Witness ==
    /\ c_models = <<<<"o", "3", ":", "m", "a", "y", "b", "e">>>>
    /\ c_pc = "done"
    /\ c_output.status = <<"c", "o", "n", "s", "e", "n", "s", "u", "s", "_", "f", "a", "i", "l", "e", "d">>
    /\ Len(c_output.models_skipped) = 1
    /\ Contains(c_output.models_skipped[1], <<"o", "3", ":", "m", "a", "y", "b", "e", " ", "(">>)
    /\ c_log.lookups = <<>>

\* The execution has ended in a failure the caller sees: an exception left
\* execute, or execute returned an object whose status is not a success.
FailureVisible ==
    \/ c_pc = "raised"
    \/ (c_pc = "done" /\ c_output.status # <<"c", "o", "n", "s", "e", "n", "s", "u", "s", "_", "s", "u", "c", "c", "e", "s", "s">>)

\* C15: every failure of a consensus execution that the caller sees (empty
\* model list, oversized prompt, no valid combination, no available provider,
\* all calls failing) is a returned object with a status field, never an
\* exception.
C15_Original ==
    FailureVisible =>
        /\ c_raised = Nothing
        /\ c_pc = "done"
        /\ "status" \in DOMAIN c_output

\* What does hold: the three failures execute detects itself are returned as
\* objects with status consensus_failed; an empty model list and an oversized
\* prompt leave execute as the exception that was raised.
C15_ReturnedFailuresAreStructured ==
    /\ (c_pc = "done" /\ c_output.status # <<"c", "o", "n", "s", "e", "n", "s", "u", "s", "_", "s", "u", "c", "c", "e", "s", "s">>) =>
           /\ c_raised = Nothing
           /\ c_output.status = <<"c", "o", "n", "s", "e", "n", "s", "u", "s", "_", "f", "a", "i", "l", "e", "d">>
           /\ "error" \in DOMAIN c_output \/ "responses" \in DOMAIN c_output
    /\ c_pc = "raised" =>
           /\ c_output = NoOutput
           /\ c_raised \in {"ValidationError", "ValueError"}
           /\ (c_raised = "ValidationError") <=> (c_models = <<>>)

\* Every alias of every model of the provider class.
AliasesOf(cls) ==
    UNION {SUPPORTED_MODELS(cls)[i].aliases : i \in 1..Len(SUPPORTED_MODELS(cls))}

\* How a get_capabilities call ended: with a descriptor, with the
\* unsupported-model error or with the restriction-denied error.
FailureKind(result) ==
    IF result.raised = <<>> THEN "none"
    ELSE IF Contains(result.raised, <<"n", "o", "t", " ", "a", "l", "l", "o", "w", "e", "d", " ", "b", "y", " ", "r", "e", "s", "t", "r", "i", "c", "t", "i", "o", "n", " ", "p", "o", "l", "i", "c", "y">>) THEN "restricted"
    ELSE IF Contains(result.raised, <<"U", "n", "s", "u", "p", "p", "o", "r", "t", "e", "d">>) THEN "unsupported"
    ELSE "other"

\* Two get_capabilities calls gave the same descriptor or failed the same way.
SameOutcome(x, y) ==
    /\ x.capabilities = y.capabilities
    /\ FailureKind(x) = FailureKind(y)

\* get_capabilities(canonical name of `alias`) under the policy in force
ViaCanonical(cls, alias) ==
    get_capabilities(cls, r_policy, resolve_model_name(cls, alias))

C16_WitnessDenied ==
    /\ Called("get_capabilities")
    /\ m_last.cls = "VertexAIProvider"
    /\ m_last.arg = <<"f", "l", "a", "s", "h">>
    /\ FailureKind(m_last.ret) = "restricted"
    /\ FailureKind(ViaCanonical("VertexAIProvider", <<"f", "l", "a", "s", "h">>)) = "restricted"

\* The provider classes whose get_capabilities is in the source tree.
CapabilityClasses == {"OpenAIModelProvider", "XAIModelProvider", "VertexAIProvider"}

\* The get_capabilities contract for one returned call.
CapabilitiesContract ==
    LET resolved == resolve_model_name(m_last.cls, m_last.arg)
        supported == resolved \in Keys(SUPPORTED_MODELS(m_last.cls))
        denied == Denies(get_provider_type(m_last.cls), resolved)
    IN  /\ ~supported => FailureKind(m_last.ret) = "unsupported"
        /\ (supported /\ denied) => FailureKind(m_last.ret) = "restricted"
        /\ FailureKind(m_last.ret) = "none" => (supported /\ ~denied)

\* The call asked VertexAIProvider for one of the models it adds to the
\* Gemini table.
AskedVertexOnlyModel ==
    /\ m_last.cls = "VertexAIProvider"
    /\ resolve_model_name(m_last.cls, m_last.arg) \in Keys(VERTEX_ONLY_MODELS)

\* C17: for OpenAI, X.AI and Vertex AI (the Vertex-only models included) and
\* every requested name, get_capabilities fails as unsupported when the
\* resolved name is no key of the table, fails as restriction-denied when the
\* policy rejects the resolved name of a supported model, and returns a
\* descriptor only for a supported and allowed model.
C17_Original ==
    (Called("get_capabilities") /\ m_last.cls \in CapabilityClasses)
        => CapabilitiesContract

\* What holds: the contract for every call that does not ask VertexAIProvider
\* for a Vertex-only model.
C17_ExceptVertexOnlyModels ==
    (Called("get_capabilities") /\ m_last.cls \in CapabilityClasses /\ ~AskedVertexOnlyModel)
        => CapabilitiesContract

\* The provider classes whose get_preferred_model is in the source tree.
PreferenceClasses == {"OpenAIModelProvider", "XAIModelProvider"}

\* The ranked preference list of a provider class for a tool category.
RankedPreferences(cls, category) ==
    IF cls = "OpenAIModelProvider"
    THEN IF category = "EXTENDED_REASONING" THEN <<<<"o", "3">>, <<"o", "3", "-", "p", "r", "o">>, <<"g", "p", "t", "-", "5">>>>
         ELSE <<<<"g", "p", "t", "-", "5">>, <<"g", "p", "t", "-", "5", "-", "m", "i", "n", "i">>, <<"o", "4", "-", "m", "i", "n", "i">>, <<"o", "3", "-", "m", "i", "n", "i">>>>
    ELSE IF category = "EXTENDED_REASONING" THEN <<<<"g", "r", "o", "k", "-", "4">>, <<"g", "r", "o", "k", "-", "3">>>>
    ELSE IF category = "FAST_RESPONSE" THEN <<<<"g", "r", "o", "k", "-", "3", "-", "f", "a", "s", "t">>, <<"g", "r", "o", "k", "-", "4">>>>
    ELSE <<<<"g", "r", "o", "k", "-", "4">>, <<"g", "r", "o", "k", "-", "3">>, <<"g", "r", "o", "k", "-", "3", "-", "f", "a", "s", "t">>>>

\* The allowed_models list the call was made with.
AllowedOfCall ==
    get_allowed_models_for_provider(m_last.cls, get_provider_type(m_last.cls), r_policy)

\* Positions of the preference list whose model is in allowed_models.
AllowedRanks(cls, category, allowed_models) ==
    {i \in 1..Len(RankedPreferences(cls, category)) :
        \E k \in 1..Len(allowed_models) :
            allowed_models[k] = RankedPreferences(cls, category)[i]}

\* `ret` is the best-ranked preference that is in allowed_models.
BestRanked(cls, category, allowed_models, ret) ==
    \E i \in AllowedRanks(cls, category, allowed_models) :
        /\ \A j \in AllowedRanks(cls, category, allowed_models) : i <= j
        /\ ret = RankedPreferences(cls, category)[i]

\* Every list of models of the class's table, in table order.
AllowedLists(cls) ==
    LET names == [i \in 1..Len(SUPPORTED_MODELS(cls)) |-> SUPPORTED_MODELS(cls)[i].key]
    IN  {Filter(names, kept) : kept \in SUBSET Keys(SUPPORTED_MODELS(cls))}

PreferenceCallReturned ==
    Called("get_preferred_model") /\ m_last.cls \in PreferenceClasses

\* The claim as stated, for one call.
AsStated(cls, category, allowed_models, ret) ==
    IF AllowedRanks(cls, category, allowed_models) # {}
    THEN BestRanked(cls, category, allowed_models, ret)
    ELSE ret = None

\* What the providers do, for one call.
AsCoded(cls, category, allowed_models, ret) ==
    IF AllowedRanks(cls, category, allowed_models) # {}
    THEN BestRanked(cls, category, allowed_models, ret)
    ELSE IF allowed_models # <<>> THEN ret = allowed_models[1]
    ELSE ret = None

\* C20 as stated: get_preferred_model returns the first model of the
\* category's ranked preference list that is in allowed_models, and None when
\* no model of the preference list is allowed.
C20_Original ==
    PreferenceCallReturned =>
        AsStated(m_last.cls, m_last.arg, AllowedOfCall, m_last.ret)

\* C20, amended: get_preferred_model returns the first model of the ranked
\* preference list that is in allowed_models; when no preference is allowed
\* it returns the first element of allowed_models, and None only when
\* allowed_models is empty.
C20_PreferredElseFirstAllowed ==
    /\ PreferenceCallReturned =>
           AsCoded(m_last.cls, m_last.arg, AllowedOfCall, m_last.ret)
    /\ Called("get_preferred_model") =>
           \A cls \in PreferenceClasses : \A allowed_models \in AllowedLists(cls) :
               AsCoded(cls, m_last.arg, allowed_models,
                       get_preferred_model(cls, m_last.arg, allowed_models))

\* No preference is allowed, and the one allowed model is returned.
C20_Witness ==
    /\ PreferenceCallReturned
    /\ m_last.cls = "XAIModelProvider"
    /\ m_last.arg = "FAST_RESPONSE"
    /\ AllowedOfCall = <<<<"g", "r", "o", "k", "-", "3">>>>
    /\ AllowedRanks(m_last.cls, m_last.arg, AllowedOfCall) = {}
    /\ m_last.ret = <<"g", "r", "o", "k", "-", "3">>

\* The second-ranked preference is returned when the first is not allowed,
\* and None when nothing is allowed.
C20_WitnessRanked ==
    /\ PreferenceCallReturned
    /\ m_last.cls = "XAIModelProvider"
    /\ m_last.arg = "EXTENDED_REASONING"
    /\ AllowedOfCall = <<<<"g", "r", "o", "k", "-", "3">>>>
    /\ m_last.ret = <<"g", "r", "o", "k", "-", "3">>

C20_WitnessNone ==
    /\ PreferenceCallReturned
    /\ AllowedOfCall = <<>>
    /\ m_last.ret = None

\* The step is the call get_provider(kind, force_new).
GetProviderStep(kind, force_new) ==
    /\ r_last = NoCall
    /\ r_last'.op = "get_provider"
    /\ r_last'.arg = <<kind, force_new>>
    /\ GetProvider(kind, force_new)

\* A step that may replace or drop the cached instance of the kind.
Intervenes(kind) ==
    \/ ClearCache
    \/ UnregisterProvider(kind)
    \/ GetProviderStep(kind, TRUE)

\* Unless such a step is taken, the cached instance of the kind stays the same
\* object, and get_provider without force_new returns it.
CachedInstanceKept(kind) ==
    (kind \in DOMAIN r_initialized /\ ~Intervenes(kind)) =>
        /\ kind \in DOMAIN r_initialized'
        /\ r_initialized'[kind] = r_initialized[kind]
        /\ GetProviderStep(kind, FALSE) => r_last'.ret = r_initialized[kind]

\* The instance a get_provider call returns is the one the cache holds after
\* the call.
ReturnedInstanceIsCached(kind, force_new) ==
    (GetProviderStep(kind, force_new) /\ r_last'.ret # NoProvider) =>
        /\ kind \in DOMAIN r_initialized'
        /\ r_initialized'[kind] = r_last'.ret

\* Registering the class that is already registered for the kind changes
\* nothing.
ReRegisteringIsIdempotent(kind, provider_class) ==
    (/\ RegisterProvider(kind, provider_class)
     /\ kind \in Registered(r_providers)
     /\ ProviderClassOf(r_providers, kind) = provider_class)
        => /\ r_providers' = r_providers
           /\ r_initialized' = r_initialized

\* C18: once get_provider(kind) has returned an instance, every later
\* get_provider(kind) without force_new returns that identical instance until
\* clear_cache, unregister_provider(kind) or a force_new call intervenes;
\* registering another class for the kind and changing or removing the
\* credential in the environment do not affect the cached instance, and
\* registering the same class again is idempotent.
C18_CachedInstanceIsStable ==
    [][ /\ \A kind \in ProviderType : CachedInstanceKept(kind)
        /\ \A kind \in ProviderType, force_new \in BOOLEAN :
               ReturnedInstanceIsCached(kind, force_new)
        /\ \A choice \in CacheRegisterChoices :
               ReRegisteringIsIdempotent(choice[1], choice[2]) ]_vars

\* The instance built with the first key is returned after the key was
\* removed from the environment and another class was registered for the kind.
C18_Witness ==
    /\ r_last.op = "get_provider"
    /\ r_last.arg = <<"OPENAI", FALSE>>
    /\ r_last.ret.cls = "OpenAIModelProvider"
    /\ r_last.ret.api_key = "test-key"
    /\ r_env["OPENAI_API_KEY"] = ""
    /\ ProviderClassOf(r_providers, "OPENAI") = "XAIModelProvider"
    /\ r_initialized["OPENAI"] = r_last.ret

\* The credential the environment holds for the kind, "" when there is none.
CredentialOf(kind) ==
    CASE kind = "GOOGLE" -> r_env["GEMINI_API_KEY"]
      [] kind = "OPENAI" -> r_env["OPENAI_API_KEY"]
      [] kind = "XAI" -> r_env["XAI_API_KEY"]
      [] kind = "OPENROUTER" -> r_env["OPENROUTER_API_KEY"]
      [] kind = "CUSTOM" -> r_env["CUSTOM_API_KEY"]
      [] kind = "DIAL" -> r_env["DIAL_API_KEY"]
      [] OTHER -> ""

RegisteredAsFactory(kind) ==
    kind \in Registered(r_providers)
        /\ ProviderClassOf(r_providers, kind) = custom_provider_factory

\* The kind cannot be constructed: it is not registered, it is not the custom
\* kind and has no credential, or it is the custom kind registered as a class
\* and the base URL is missing.
CannotConstruct(kind) ==
    \/ kind \notin Registered(r_providers)
    \/ kind # "CUSTOM" /\ CredentialOf(kind) = ""
    \/ kind = "CUSTOM" /\ ~RegisteredAsFactory(kind) /\ r_env["CUSTOM_API_URL"] = ""

\* The custom kind is registered as a class, a key is set and the URL is not.
KeyWithoutUrl(kind) ==
    /\ kind = "CUSTOM"
    /\ kind \in Registered(r_providers)
    /\ ~RegisteredAsFactory(kind)
    /\ r_env["CUSTOM_API_URL"] = ""
    /\ CredentialOf(kind) # ""

\* The call returns None, stores nothing and warns exactly for a key without
\* a URL.
ReturnsNoneStoresNothing(kind) ==
    /\ r_last'.ret = NoProvider
    /\ r_initialized' = r_initialized
    /\ r_last'.warned <=> KeyWithoutUrl(kind)

\* A custom kind registered as a factory is built whatever the URL.
FactoryBuilds(force_new) ==
    (/\ GetProviderStep("CUSTOM", force_new)
     /\ RegisteredAsFactory("CUSTOM")
     /\ force_new \/ "CUSTOM" \notin DOMAIN r_initialized)
        => /\ r_last'.ret # NoProvider
           /\ r_last'.ret.cls = "CustomProvider"
           /\ r_initialized'["CUSTOM"] = r_last'.ret
           /\ ~r_last'.warned

\* C19 as stated: get_provider returns None and stores nothing in the cache
\* whenever the kind cannot be constructed (not registered, no credential for
\* a non-custom kind, or the custom kind registered as a class without base
\* URL, warning only if a key was supplied); a custom kind registered as a
\* factory is constructed without the URL.
C19_Original ==
    [][ /\ \A kind \in ProviderType, force_new \in BOOLEAN :
               (GetProviderStep(kind, force_new) /\ CannotConstruct(kind))
                   => ReturnsNoneStoresNothing(kind)
        /\ \A force_new \in BOOLEAN : FactoryBuilds(force_new) ]_vars

\* C19, amended: the same for every call that has to construct, that is when
\* force_new is given or no instance of the kind is cached; a cached instance
\* is returned even when the kind could not be constructed any more.
C19_NoneWhenConstructionImpossible ==
    [][ /\ \A kind \in ProviderType, force_new \in BOOLEAN :
               (/\ GetProviderStep(kind, force_new)
                /\ CannotConstruct(kind)
                /\ force_new \/ kind \notin DOMAIN r_initialized)
                   => ReturnsNoneStoresNothing(kind)
        /\ \A kind \in ProviderType :
               (/\ GetProviderStep(kind, FALSE)
                /\ kind \in DOMAIN r_initialized)
                   => (r_last'.ret = r_initialized[kind] /\ ~r_last'.warned)
        /\ \A force_new \in BOOLEAN : FactoryBuilds(force_new) ]_vars

\* A key without a URL: the custom class was asked for, nothing was built or
\* stored, and the warning was logged.
C19_Witness ==
    /\ r_last.op = "get_provider"
    /\ r_last.arg[1] = "CUSTOM"
    /\ r_last.ret = NoProvider
    /\ r_last.warned
    /\ KeyWithoutUrl("CUSTOM")
    /\ "CUSTOM" \notin DOMAIN r_initialized

\* Neither key nor URL: None without a warning; and a factory built without URL.
C19_WitnessSilent ==
    /\ r_last.op = "get_provider"
    /\ r_last.arg[1] = "CUSTOM"
    /\ r_last.ret = NoProvider
    /\ ~r_last.warned
    /\ "CUSTOM" \in Registered(r_providers)
    /\ r_env["CUSTOM_API_KEY"] = ""

C19_WitnessFactory ==
    /\ r_last.op = "get_provider"
    /\ r_last.arg[1] = "CUSTOM"
    /\ RegisteredAsFactory("CUSTOM")
    /\ r_env["CUSTOM_API_URL"] = ""
    /\ r_last.ret.cls = "CustomProvider"
    /\ r_last.ret.id = 2

\* The category get_preferred_fallback_model was called for.
FallbackCategory == IF r_last.arg = "None" THEN "BALANCED" ELSE r_last.arg

\* The models of an obtainable kind that the policy allows it, in table order.
AllowedListOf(kind) ==
    LET table == SUPPORTED_MODELS(InstanceClass(kind))
    IN  SelectSeq([i \in 1..Len(table) |-> table[i].key], LAMBDA n : ~Denies(kind, n))

NamesOf(names) == {names[i] : i \in 1..Len(names)}

\* The first name of a set in string order.
Least(names) == CHOOSE n \in names : \A m \in names : StrLeq(n, m)

\* Positions of the priority order whose kind is obtainable and has an
\* allowed model.
HasModels ==
    {i \in 1..Len(ClaimedOrder) :
        Obtainable(ClaimedOrder[i]) /\ AllowedListOf(ClaimedOrder[i]) # <<>>}

\* What the provider at position i answers when asked for its preference.
AnswerOf(i) ==
    get_preferred_model(InstanceClass(ClaimedOrder[i]), FallbackCategory,
                        AllowedListOf(ClaimedOrder[i]))

Answering == {i \in HasModels : AnswerOf(i) # None}

First(positions) == CHOOSE i \in positions : \A j \in positions : i <= j

FallbackReturned == r_last.op = "get_preferred_fallback_model"

\* No provider states a preference although two of them have allowed models.
SecondTierCase ==
    /\ FallbackReturned
    /\ Answering = {}
    /\ Cardinality(HasModels) >= 2

\* C21 as stated: the first non-empty provider preference in priority order;
\* else the first model in sorted order across the allowed models of all
\* providers; else the hardcoded constant; and the returned name is allowed
\* for the provider it came from.
C21_Original ==
    FallbackReturned =>
        IF Answering # {}
        THEN /\ r_last.ret = AnswerOf(First(Answering))
             /\ r_last.ret \in NamesOf(AllowedListOf(ClaimedOrder[First(Answering)]))
        ELSE IF HasModels # {}
        THEN r_last.ret = Least(UNION {NamesOf(AllowedListOf(ClaimedOrder[i])) : i \in HasModels})
        ELSE r_last.ret = <<"g", "e", "m", "i", "n", "i", "-", "2", ".", "5", "-", "f", "l", "a", "s", "h">>

\* C21, amended: in the second tier the name returned is the first in sorted
\* order among the allowed models of the first provider, in priority order,
\* that has any allowed model.
C21_ThreeTiersFirstProviderSorted ==
    FallbackReturned =>
        IF Answering # {}
        THEN /\ r_last.ret = AnswerOf(First(Answering))
             /\ r_last.ret \in NamesOf(AllowedListOf(ClaimedOrder[First(Answering)]))
        ELSE IF HasModels # {}
        THEN r_last.ret = Least(NamesOf(AllowedListOf(ClaimedOrder[First(HasModels)])))
        ELSE r_last.ret = <<"g", "e", "m", "i", "n", "i", "-", "2", ".", "5", "-", "f", "l", "a", "s", "h">>

\* Two providers without a preference: the sorted first model of the earlier
\* one is returned although the later one has a model that sorts before it.
C21_Witness ==
    /\ SecondTierCase
    /\ HasModels = {4, 6}
    /\ r_last.ret = <<"o", "3">>
    /\ <<"m", "i", "s", "t", "r", "a", "l", "-", "l", "a", "r", "g", "e">> \in NamesOf(AllowedListOf("OPENROUTER"))

\* The first tier skips a provider without allowed models; the second tier
\* sorts the list of one provider.
C21_WitnessFirstTier ==
    /\ FallbackReturned
    /\ Obtainable("OPENAI") /\ AllowedListOf("OPENAI") = <<>>
    /\ Answering = {3}
    /\ r_last.ret = <<"g", "r", "o", "k", "-", "4">>

C21_WitnessSorted ==
    /\ FallbackReturned
    /\ Answering = {}
    /\ HasModels = {4}
    /\ AllowedListOf("DIAL") = <<<<"o", "3">>, <<"g", "e", "m", "i", "n", "i", "-", "2", ".", "5", "-", "p", "r", "o">>>>
    /\ r_last.ret = <<"g", "e", "m", "i", "n", "i", "-", "2", ".", "5", "-", "p", "r", "o">>

\* The execution has left execute: it returned an object or raised.
Finished == c_pc \in {"done", "raised", "cancelled"}

\* A backend call was started and has not returned.
CallOutstanding == c_pc = "in_call"

\* C22 as stated: a dispatched call that never returns does not block the
\* batch; once the dispatch loop is entered the execution eventually ends,
\* with every dispatched combination answered by an entry.
C22_Original ==
    (c_pc = "dispatch") ~> (Finished /\ (c_pc = "done" => Len(c_responses) = Len(c_pam)))

\* What holds instead: the execution ends unless a call is outstanding
\* forever, and a call that hangs leaves every later combination uncalled.
C22_EndsUnlessACallHangs ==
    (c_pc = "dispatch") ~> (Finished \/ CallOutstanding)

C22_HangBlocksTheBatch ==
    CallOutstanding =>
        /\ c_output = NoOutput
        /\ Len(c_log.calls) = c_idx
        /\ Len(c_responses) = c_idx - 1

\* Every returned execution that dispatched has one entry per combination.
C22_ReturnedBatchIsComplete ==
    c_pc = "done" => Len(c_responses) = Len(c_pam)

Cancelled == c_pc = "cancelled"

\* C23: a cancelled execution raises CancelledError out of execute and
\* returns nothing: it has no output although entries were collected, nothing
\* is in conversation memory, and it takes no further step, so that no
\* backend call is started after the cancellation.
C23_CancellationReturnsNothing ==
    [][ /\ Cancelled' =>
            /\ c_raised' = "CancelledError"
            /\ c_output' = NoOutput
            /\ c_log'.memory = <<>>
            /\ c_log'.calls = c_log.calls
            /\ Len(c_log'.calls) = c_idx'
        /\ ~Cancelled
      ]_vars

\* Cancelled in the dispatch loop after a successful call, with a combination
\* left to call and a continuation id given.
C23_Witness ==
    /\ Cancelled
    /\ c_continuation
    /\ c_idx < Len(c_pam)
    /\ successful_responses(c_responses) # <<>>
    /\ c_output = NoOutput

\* Cancelled after the last call, before the aggregate is built.
C23_WitnessBeforeFormat ==
    /\ Cancelled
    /\ c_continuation
    /\ c_idx = Len(c_pam)
    /\ Len(c_responses) = Len(c_pam)
    /\ successful_responses(c_responses) # <<>>

\* The base system prompt does not hold exactly one stance placeholder.
BadPlaceholders == c_placeholders # 1

PlaceholderEntry(response) ==
    /\ response.status = "error"
    /\ response.error = placeholder_error(c_placeholders)

AllFailedReturned ==
    /\ c_pc = "done"
    /\ c_output # NoOutput
    /\ c_output.status = <<"c", "o", "n", "s", "e", "n", "s", "u", "s", "_", "f", "a", "i", "l", "e", "d">>
    /\ Contains(StrLower(c_output.error), <<"a", "l", "l", " ", "m", "o", "d", "e", "l", " ", "c", "a", "l", "l", "s", " ", "f", "a", "i", "l", "e", "d">>)

\* C24 as stated: a wrong placeholder count is raised out of the execution at
\* once; it is never turned into an error entry of a model, never ends as
\* "all model calls failed", and is checked no more than once.
C24_Original ==
    BadPlaceholders =>
        /\ \A i \in 1..Len(c_responses) : ~PlaceholderEntry(c_responses[i])
        /\ ~AllFailedReturned
        /\ Len(c_log.calls) <= 1
        /\ (c_pc \in {"sleep", "done"} /\ c_pam # <<>>) => c_raised = "ValueError"

\* What the code does instead: the error is caught once per combination and
\* recorded as that combination's error entry, no backend is called, and the
\* execution ends as "all model calls failed" without raising.
C24_PlaceholderErrorBecomesEntries ==
    (BadPlaceholders /\ c_pc \notin {"raised", "cancelled"}) =>
        /\ \A i \in 1..Len(c_responses) : PlaceholderEntry(c_responses[i])
        /\ Len(c_log.calls) = Len(c_responses)
        /\ c_log.generations = 0
        /\ c_raised = Nothing
        /\ (c_pc = "done" /\ c_pam # <<>>) =>
               /\ AllFailedReturned
               /\ Len(c_responses) = Len(c_pam)

C24_Reached ==
    /\ BadPlaceholders
    /\ AllFailedReturned
    /\ Len(c_responses) = 3

\* The threads whose get_provider call has returned an instance.
Served == {t \in Threads : t_call[t].pc = "done" /\ t_call[t].ret # NoProvider}

\* The provider objects constructed for the kind a thread asked for.
BuiltFor(kind) ==
    {t_call[t].provider : t \in {u \in Threads : t_call[u].kind = kind}} \ {NoProvider}

\* C25 as stated: whatever the interleaving, one provider object at most is
\* constructed for a kind and every caller gets that object; no caller sees a
\* half-built object; the registry stays one object under concurrent first
\* use.
C25_Original ==
    /\ \A kind \in ThreadKinds : Cardinality(BuiltFor(kind)) <= 1
    /\ \A t, u \in Served : t_call[t].kind = t_call[u].kind => t_call[t].ret = t_call[u].ret
    /\ \A t \in Threads : t_call[t].raised = "None"
    /\ t_registry.made <= 1
    /\ \A t \in Threads : t_call[t].instance \in {0, t_registry.current}

\* The first clause alone: one construction per kind.
C25_OneConstructionPerKind ==
    \A kind \in ThreadKinds : Cardinality(BuiltFor(kind)) <= 1

\* The last clause alone: one registry object, seen complete.
C25_OneRegistry ==
    /\ t_registry.made <= 1
    /\ \A t \in Threads : t_call[t].raised = "None"

\* What holds: a cached provider is an object whose constructor has returned,
\* and what a caller gets was constructed by some caller for the same kind.
C25_CachedProvidersAreComplete ==
    /\ \A kind \in DOMAIN r_initialized : r_initialized[kind] \in t_registry.built
    /\ \A t \in Served : t_call[t].ret \in BuiltFor(t_call[t].kind)

\* Two threads were handed different objects for the same kind.
C25_TwoInstances ==
    \E t, u \in Served :
        /\ t_call[t].kind = t_call[u].kind
        /\ t_call[t].ret.id # t_call[u].ret.id

\* clear_cache empties the instance cache and touches nothing else.
ClearCacheFrame ==
    ClearCache =>
        /\ r_initialized' = EmptyCache
        /\ r_providers' = r_providers
        /\ r_env' = r_env

\* A get_provider call for a kind that is not cached builds from what is
\* registered and set in the environment now.
BuildsFromCurrentEnvironment(kind) ==
    (/\ GetProviderStep(kind, FALSE)
     /\ kind \notin DOMAIN r_initialized
     /\ ~CannotConstruct(kind))
        => /\ r_last'.ret # NoProvider
           /\ r_last'.ret.api_key = CredentialOf(kind)
           /\ r_last'.ret.cls = IF RegisteredAsFactory(kind) THEN "CustomProvider"
                                ELSE ProviderClassOf(r_providers, kind)
           /\ kind = "CUSTOM" => r_last'.ret.base_url = r_env["CUSTOM_API_URL"]
           /\ r_initialized'[kind] = r_last'.ret

\* unregister_provider(kind) drops the registration and the cached instance
\* of the kind and nothing of any other kind.
UnregisterFrame(kind) ==
    UnregisterProvider(kind) =>
        /\ kind \notin Registered(r_providers')
        /\ kind \notin DOMAIN r_initialized'
        /\ r_providers' = SelectSeq(r_providers, LAMBDA p : p.kind # kind)
        /\ DOMAIN r_initialized' = DOMAIN r_initialized \ {kind}
        /\ \A other \in DOMAIN r_initialized' : r_initialized'[other] = r_initialized[other]

\* C26: clear_cache removes every cached instance and leaves the
\* registrations unchanged, so the next get_provider(kind) constructs an
\* instance from the current environment credential; unregister_provider(kind)
\* removes the registration and the cached instance of that kind and leaves
\* every other kind unchanged.
C26_CacheAndRegistrationsAreIndependent ==
    [][ /\ ClearCacheFrame
        /\ \A kind \in ProviderType : BuildsFromCurrentEnvironment(kind)
        /\ \A kind \in ProviderType : UnregisterFrame(kind) ]_vars

\* After the key was rotated and the cache emptied, get_provider has built an
\* instance with the rotated key, while another kind is registered too.
C26_Witness ==
    /\ r_last.op = "get_provider"
    /\ r_last.arg = <<"OPENAI", FALSE>>
    /\ r_last.ret.api_key = "rotated-key"
    /\ r_last.ret.id = 1
    /\ DOMAIN r_initialized = {"OPENAI"}
    /\ Registered(r_providers) = {"OPENAI", "CUSTOM"}

\* One kind is gone from the registrations and the cache, the other kept both.
C26_WitnessOtherKindKept ==
    /\ Registered(r_providers) = {"CUSTOM"}
    /\ DOMAIN r_initialized = {"CUSTOM"}
    /\ r_env["OPENAI_API_KEY"] = "rotated-key"
    /\ r_last = NoCall

\* How often get_model_provider was called for the model name.
LookupsOf(log, model_name) ==
    Cardinality({i \in 1..Len(log.lookups) : log.lookups[i] = model_name})

LookedUpNames == {c_log.lookups[i] : i \in 1..Len(c_log.lookups)}

\* C27 as stated: in one execution the provider lookup is performed at most
\* once per distinct model name, whether the lookup succeeds or fails.
C27_Original ==
    \A model_name \in LookedUpNames : LookupsOf(c_log, model_name) <= 1

\* What holds: a model whose lookup has succeeded is not looked up again,
\* and no model is looked up more often than it has combinations.
C27_SuccessfulLookupIsReused ==
    [][ \A model_name \in DOMAIN c_cache :
            LookupsOf(c_log', model_name) = LookupsOf(c_log, model_name) ]_vars

C27_LookupsBoundedByCombinations ==
    \A model_name \in LookedUpNames :
        LookupsOf(c_log, model_name)
            <= Cardinality({i \in 1..Len(c_valid) : c_valid[i][1] = model_name})

\* The same model was looked up for each of its two stances, and failed twice.
C27_LookedUpTwice ==
    /\ c_log.lookups = <<<<"o", "3">>, <<"o", "3">>>>
    /\ c_cache = <<>>
    /\ Len(c_skipped) = 2
    /\ c_pc = "done"

\* What is in conversation memory is one turn of a successful execution that
\* was given a continuation id: it carries the sentinel names and the
\* successful responses only.
MemoryHoldsOnlySuccess(log, continuation, responses) ==
    /\ Len(log.memory) <= 1
    /\ log.memory # <<>> =>
          /\ continuation
          /\ \E i \in 1..Len(responses) : responses[i].status = "success"
          /\ log.memory[1].model_provider = "consensus"
          /\ log.memory[1].model_name = "consensus"
          /\ log.memory[1].individual_responses
                = SelectSeq(responses, LAMBDA r : r.status = "success")
          /\ \A i \in 1..Len(log.memory[1].individual_responses) :
                log.memory[1].individual_responses[i].status = "success"

FailedReturned ==
    c_pc = "done" /\ c_output.status = <<"c", "o", "n", "s", "e", "n", "s", "u", "s", "_", "f", "a", "i", "l", "e", "d">>

\* C28: an execution writes to conversation memory at most once, and only
\* with a continuation id and a successful call; the turn carries
\* model_provider and model_name "consensus" and the successful responses
\* only; an execution that ends in consensus_failed stores nothing; and
\* nothing is stored after the one write.
C28_MemoryWrittenOnceOnSuccess ==
    [][ /\ MemoryHoldsOnlySuccess(c_log', c_continuation', c_responses')
        /\ FailedReturned' => c_log'.memory = <<>>
        /\ c_log.memory # <<>> => c_log'.memory = c_log.memory
        /\ (c_pc' = "done" /\ c_output'.status = <<"c", "o", "n", "s", "e", "n", "s", "u", "s", "_", "s", "u", "c", "c", "e", "s", "s">> /\ c_continuation')
              => Len(c_log'.memory) = 1 ]_vars

\* A turn was stored by an execution in which one call failed and one
\* succeeded: the failed response is not in it.
C28_Witness ==
    /\ c_pc = "done"
    /\ c_continuation
    /\ Len(c_log.memory) = 1
    /\ Len(c_responses) = 2
    /\ Len(c_log.memory[1].individual_responses) = 1
    /\ c_log.memory[1].models_errored # <<>>

\* Each way of ending in consensus_failed, with a continuation id given.
C28_WitnessAllFailed ==
    /\ FailedReturned /\ c_continuation
    /\ c_responses # <<>>
    /\ c_log.memory = <<>>

C28_WitnessNoProvider ==
    /\ FailedReturned /\ c_continuation
    /\ c_valid # <<>> /\ c_pam = <<>>
    /\ c_log.memory = <<>>

C28_WitnessNoValid ==
    /\ FailedReturned /\ c_continuation
    /\ c_valid = <<>>
    /\ c_log.memory = <<>>

\* A forced rebuild that returns None leaves the cache as it was.
FailedRebuildKeepsCache(kind) ==
    (GetProviderStep(kind, TRUE) /\ r_last'.ret = NoProvider) =>
        r_initialized' = r_initialized

\* A forced rebuild that returns an instance puts that instance, a new
\* object, in the place of the cached one and touches no other kind.
RebuildReplacesCached(kind) ==
    (GetProviderStep(kind, TRUE) /\ r_last'.ret # NoProvider) =>
        /\ DOMAIN r_initialized' = DOMAIN r_initialized \cup {kind}
        /\ r_initialized'[kind] = r_last'.ret
        /\ kind \in DOMAIN r_initialized => r_last'.ret # r_initialized[kind]
        /\ \A other \in DOMAIN r_initialized \ {kind} :
               r_initialized'[other] = r_initialized[other]

\* A later call without force_new returns what the cache holds.
LaterCallReturnsCached(kind) ==
    (GetProviderStep(kind, FALSE) /\ kind \in DOMAIN r_initialized) =>
        /\ r_last'.ret = r_initialized[kind]
        /\ r_initialized' = r_initialized

\* C29: after any sequence of register_provider, get_provider (with or
\* without force_new), clear_cache and unregister_provider calls, every kind
\* with a cached instance is registered; get_provider(kind, force_new=True)
\* that returns None leaves the cached instance of the kind in place, and
\* one that returns a new instance replaces it for the later
\* get_provider(kind) calls.
C29_CachedKindsAreRegistered ==
    [][ /\ DOMAIN r_initialized' \subseteq Registered(r_providers')
        /\ \A kind \in ProviderType :
               /\ FailedRebuildKeepsCache(kind)
               /\ RebuildReplacesCached(kind)
               /\ LaterCallReturnsCached(kind) ]_vars

\* The key was removed: the forced rebuild returned None and the instance
\* built with the key is still cached.
C29_Witness ==
    /\ r_last.op = "get_provider"
    /\ r_last.arg = <<"OPENAI", TRUE>>
    /\ r_last.ret = NoProvider
    /\ "OPENAI" \in DOMAIN r_initialized
    /\ r_initialized["OPENAI"].api_key = "test-key"
    /\ r_env["OPENAI_API_KEY"] = ""

\* The forced rebuild returned a second object, which is now the cached one.
C29_WitnessReplaced ==
    /\ r_last.op = "get_provider"
    /\ r_last.arg = <<"OPENAI", TRUE>>
    /\ r_last.ret.id = 2
    /\ r_last.ret.api_key = "rotated-key"
    /\ r_initialized["OPENAI"] = r_last.ret

\* The registrations without the one of the Vertex AI kind.
WithoutVertex(providers) == SelectSeq(providers, LAMBDA p : p.kind # "VERTEX_AI")

VertexRegistered == "VERTEX_AI" \in Registered(r_providers)

\* The step is a call of the operation on the registry.
Calls(op) == r_last = NoCall /\ r_last'.op = op

\* get_provider returns None for the kind and never caches an instance of it.
VertexNeverBuilt ==
    /\ "VERTEX_AI" \notin DOMAIN r_initialized'
    /\ (Calls("get_provider") /\ r_last'.arg[1] = "VERTEX_AI") => r_last'.ret = NoProvider

\* get_provider_for_model answers as if the kind were not registered.
VertexNeverServes ==
    Calls("get_provider_for_model") =>
        /\ r_last'.ret.cls # "VertexAIProvider"
        /\ r_last'.ret = get_provider_for_model(WithoutVertex(r_providers), r_initialized,
                                                r_env, r_policy, r_last'.arg).provider

\* get_available_models lists nothing for the kind.
VertexNeverListed ==
    Calls("get_available_models") =>
        /\ \A n \in DOMAIN r_last'.ret : r_last'.ret[n] # "VERTEX_AI"
        /\ DOMAIN r_last'.ret \cap Keys(VERTEX_ONLY_MODELS) = {}
        /\ r_last'.ret = get_available_models(WithoutVertex(r_providers), r_initialized,
                                              r_env, r_policy, r_last'.arg).models

\* get_preferred_fallback_model answers as if the kind were not registered.
VertexNeverPreferred ==
    Calls("get_preferred_fallback_model") =>
        /\ r_last'.ret \notin Keys(VERTEX_ONLY_MODELS)
        /\ r_last'.ret = get_preferred_fallback_model(WithoutVertex(r_providers),
                             r_initialized, r_env, r_policy, r_last'.arg).model

C30_WitnessModel ==
    /\ Registered(r_providers) = {"VERTEX_AI"}
    /\ \A v \in EnvVars : r_env[v] # ""
    /\ r_last.op = "get_provider_for_model"
    /\ r_last.arg = <<"g", "e", "m", "i", "n", "i", "-", "2", ".", "5", "-", "p", "r", "o">>
    /\ r_last.ret = NoProvider

C30_WitnessListing ==
    /\ VertexRegistered
    /\ Cardinality(Registered(r_providers)) = 2
    /\ r_last.op = "get_available_models"
    /\ r_last.ret # EmptyDict
    /\ \A n \in DOMAIN r_last.ret : r_last.ret[n] # "VERTEX_AI"
====
